---- MODULE Spec2Model ----
(***************************************************************************)
(* A model of the two InvestorHub document generators:                     *)
(*   scripts/generate_signed_agreement.py  and  scripts/generate_statement.py *)
(* One run of either command is a behaviour: the argument check, the read  *)
(* of the input JSON, the renderer's sections in source order, doc.build,  *)
(* and the command's exception handlers.                                   *)
(*                                                                         *)
(* Python strings are TLA+ strings (Len, SubSeq and \o work on them in     *)
(* TLC), of the characters of code 1 to 255.  A JSON value is a record     *)
(* [t, s, n, rows]; t is one of "absent" (the key is not in the object),   *)
(* "null", "str", "num", "list".  The numbers of the input are integers; a *)
(* row of a list is a dict, a record of its keys with the order the file   *)
(* writes them in.  What float() gives is an exact double.                 *)
(***************************************************************************)
EXTENDS Integers, Sequences, FiniteSets, TLC

VARIABLES
    cmd,        \* "agreement" | "statement": which script runs
    argc,       \* len(sys.argv) - 1
    input,      \* the file at sys.argv[1]: [status, text, v, f]
    outDir,     \* what open(output_path, "wb") will meet: "ok" | "nodir" | "denied"
    outFile,    \* the file at output_path: "none" | "old" | "new"
    pc,         \* position of the run
    data,       \* the loaded JSON: [set, type, f]
    elements,   \* the renderer's elements list
    exc,        \* the exception in flight: [type, msg, at]
    stdout,     \* lines printed on standard output
    stderr,     \* lines printed on standard error
    exitCode,   \* -1 while running, then the process exit code
    inputRead,  \* open(input_path) was attempted
    returned    \* the renderer returned to __main__

vars == <<cmd, argc, input, outDir, outFile, pc, data, elements, exc,
          stdout, stderr, exitCode, inputRead, returned>>

\* ------------------------------------------------------------------ bounds
MaxArgc == 3
MaxRows == 2

\* ----------------------------------------------------------------- strings
\* The characters of the model are those of code 1 to 255, the character of
\* code k at place k of CharTable (the grave accent of place 96 is cut
\* from a string that an apostrophe closes).
CharTable ==
    "\t\n\f\r" \o
    "" \o
    " !\"#$%&'()*+,-./" \o
    "0123456789:;<=>?" \o
    "@ABCDEFGHIJKLMNO" \o
    "PQRSTUVWXYZ[\\]^_" \o
    SubSeq("`'", 1, 1) \o "abcdefghijklmno" \o
    "pqrstuvwxyz{|}~" \o
    "" \o
    "" \o
    " ¡¢£¤¥¦§¨©ª«¬­®¯" \o
    "°±²³´µ¶·¸¹º»¼½¾¿" \o
    "ÀÁÂÃÄÅÆÇÈÉÊËÌÍÎÏ" \o
    "ÐÑÒÓÔÕÖ×ØÙÚÛÜÝÞß" \o
    "àáâãäåæçèéêëìíîï" \o
    "ðñòóôõö÷øùúûüýþÿ"

\* s[i-1:i]: the character at place i, "" outside the string
Ch(s, i) == IF i >= 1 /\ i <= Len(s) THEN SubSeq(s, i, i) ELSE ""

\* ord(c) and chr(k)
Ord(c) == CHOOSE k \in 1..255 : SubSeq(CharTable, k, k) = c
Chr(k) == SubSeq(CharTable, k, k)

StartsWith(s, p) == Len(s) >= Len(p) /\ SubSeq(s, 1, Len(p)) = p

Digits == "0123456789"
IsDigit(c) == \E i \in 1..10 : Ch(Digits, i) = c
DigitVal(c) == (CHOOSE i \in 1..10 : Ch(Digits, i) = c) - 1

RECURSIVE StrToNat(_)
StrToNat(s) ==
    IF Len(s) = 0 THEN 0
    ELSE StrToNat(SubSeq(s, 1, Len(s) - 1)) * 10 + DigitVal(Ch(s, Len(s)))

RECURSIVE NatStr(_)
NatStr(n) ==
    IF n < 10 THEN Ch(Digits, n + 1) ELSE NatStr(n \div 10) \o Ch(Digits, (n % 10) + 1)

\* s with zeros in front up to n characters
RECURSIVE PadLeft(_, _)
PadLeft(s, n) == IF Len(s) >= n THEN s ELSE PadLeft("0" \o s, n)

\* "%02x" of a character code
Hex2(k) == Ch("0123456789abcdef", (k \div 16) + 1) \o Ch("0123456789abcdef", (k % 16) + 1)

\* str.find(c): the first index of the one-character string c in s, 0 if none
FindChar(s, c) ==
    IF \E i \in 1..Len(s) : Ch(s, i) = c
    THEN CHOOSE i \in 1..Len(s) : Ch(s, i) = c /\ \A j \in 1..(i - 1) : Ch(s, j) # c
    ELSE 0

\* str.split(sep): every piece between occurrences of the one-character sep
RECURSIVE Split(_, _)
Split(s, sep) ==
    LET k == FindChar(s, sep)
    IN  IF k = 0 THEN <<s>>
        ELSE <<SubSeq(s, 1, k - 1)>> \o Split(SubSeq(s, k + 1, Len(s)), sep)

\* str.split(sep, 1): at most one split, at the first sep
Split1(s, sep) ==
    LET k == FindChar(s, sep)
    IN  IF k = 0 THEN <<s>>
        ELSE <<SubSeq(s, 1, k - 1), SubSeq(s, k + 1, Len(s))>>

\* str.isspace() of one character: \t \n \v \f \r, the separators 28 to 31,
\* the blank, NEL and the no-break space
IsSpace(c) == Len(c) = 1 /\ Ord(c) \in ((9..13) \cup (28..32) \cup {133, 160})

RECURSIVE LStrip(_)
LStrip(s) ==
    IF Len(s) > 0 /\ IsSpace(Ch(s, 1)) THEN LStrip(SubSeq(s, 2, Len(s))) ELSE s

RECURSIVE RStrip(_)
RStrip(s) ==
    IF Len(s) > 0 /\ IsSpace(Ch(s, Len(s))) THEN RStrip(SubSeq(s, 1, Len(s) - 1)) ELSE s

\* str.strip()
Strip(s) == RStrip(LStrip(s))

\* str.replace(old, new) for a one-character old
RECURSIVE Replace(_, _, _)
Replace(s, old, new) ==
    IF Len(s) = 0 THEN ""
    ELSE IF Len(s) = 1 THEN (IF s = old THEN new ELSE s)
    ELSE Replace(SubSeq(s, 1, Len(s) \div 2), old, new)
         \o Replace(SubSeq(s, Len(s) \div 2 + 1, Len(s)), old, new)

\* str.capitalize() of the first character: its title-case form.  Among the
\* characters of the model that is the upper-case letter of a-z and of 224-254
\* (but for the division sign 247), "Ss" for the sharp s (223), U+039C for
\* the micro sign (181) and U+0178 for the y with diaeresis (255); every
\* other character is its own title-case form.  A string of this language
\* cannot hold U+0178 (none of the codes 256 to 383 can be written in one), so
\* the model writes that one character as U+03AB, the capital upsilon with
\* diaeresis, which no other string of the model holds.
TitleChar(c) ==
    IF Len(c) # 1 THEN c
    ELSE IF Ord(c) \in (97..122) \cup ((224..254) \ {247}) THEN Chr(Ord(c) - 32)
    ELSE IF Ord(c) = 223 THEN "Ss"
    ELSE IF Ord(c) = 181 THEN "Μ"
    ELSE IF Ord(c) = 255 THEN "Ϋ"
    ELSE c

\* str.lower() of one character: A-Z and 192-222 (but for the multiplication
\* sign 215) have a lower-case form, 32 places on
LowerChar(c) ==
    IF Len(c) = 1 /\ Ord(c) \in (65..90) \cup ((192..222) \ {215})
    THEN Chr(Ord(c) + 32) ELSE c

RECURSIVE Lower(_)
Lower(s) ==
    IF Len(s) <= 1 THEN LowerChar(s)
    ELSE Lower(SubSeq(s, 1, Len(s) \div 2)) \o Lower(SubSeq(s, Len(s) \div 2 + 1, Len(s)))

\* The first character in title case and the rest left as it is
CapitalizeFirstOnly(s) ==
    IF Len(s) = 0 THEN "" ELSE TitleChar(Ch(s, 1)) \o SubSeq(s, 2, Len(s))

\* str.capitalize(): the first character in title case, every other one in
\* lower case
Capitalize(s) ==
    IF Len(s) = 0 THEN "" ELSE TitleChar(Ch(s, 1)) \o Lower(SubSeq(s, 2, Len(s)))

\* repr(s) of a string: in single quotes, or in double quotes when it holds a
\* single quote and no double quote.  The printable characters, those from
\* code 32 on but for 127 to 160 and 173, are written as they are.
ReprChar(c, quote) ==
    LET k == Ord(c)
    IN  IF c = quote \/ c = "\\" THEN "\\" \o c
        ELSE IF c = "\t" THEN "\\t"
        ELSE IF c = "\n" THEN "\\n"
        ELSE IF c = "\r" THEN "\\r"
        ELSE IF k >= 32 /\ ~(k >= 127 /\ k <= 160) /\ k # 173 THEN c
        ELSE "\\x" \o Hex2(k)

RECURSIVE ReprBody(_, _)
ReprBody(s, quote) ==
    IF Len(s) = 0 THEN ""
    ELSE IF Len(s) = 1 THEN ReprChar(s, quote)
    ELSE ReprBody(SubSeq(s, 1, Len(s) \div 2), quote)
         \o ReprBody(SubSeq(s, Len(s) \div 2 + 1, Len(s)), quote)

Repr(s) ==
    LET quote == IF FindChar(s, "'") # 0 /\ FindChar(s, "\"") = 0 THEN "\"" ELSE "'"
    IN  quote \o ReprBody(s, quote) \o quote

\* json.dumps of a string (ensure_ascii), without the quotes around it
JsonChar(c) ==
    LET k == Ord(c)
    IN  IF c = "\"" \/ c = "\\" THEN "\\" \o c
        ELSE IF c = "\n" THEN "\\n"
        ELSE IF c = "\r" THEN "\\r"
        ELSE IF c = "\t" THEN "\\t"
        ELSE IF c = "\f" THEN "\\f"
        ELSE IF k = 8 THEN "\\b"
        ELSE IF k < 32 \/ k >= 127 THEN "\\u00" \o Hex2(k)
        ELSE c

RECURSIVE JsonEscape(_)
JsonEscape(s) ==
    IF Len(s) = 0 THEN ""
    ELSE IF Len(s) = 1 THEN JsonChar(s)
    ELSE JsonEscape(SubSeq(s, 1, Len(s) \div 2))
         \o JsonEscape(SubSeq(s, Len(s) \div 2 + 1, Len(s)))

\* ------------------------------------------------------------- JSON values
Absent == [t |-> "absent", s |-> "", n |-> 0, rows |-> <<>>]
Null   == [t |-> "null", s |-> "", n |-> 0, rows |-> <<>>]
S(x)   == [t |-> "str", s |-> x, n |-> 0, rows |-> <<>>]
N(k)   == [t |-> "num", s |-> "", n |-> k, rows |-> <<>>]
L(r)   == [t |-> "list", s |-> "", n |-> 0, rows |-> r]

\* dict.get(key, default): the default only when the key is absent
GetNoDefault(d, k, dflt) == IF d[k].t = "absent" THEN Null ELSE d[k]
Get(d, k, dflt) == IF d[k].t = "absent" THEN dflt ELSE d[k]

\* Python truthiness of a JSON value
Truthy(v) ==
    CASE v.t = "str"  -> Len(v.s) > 0
      [] v.t = "num"  -> v.n # 0
      [] v.t = "list" -> Len(v.rows) > 0
      [] OTHER        -> FALSE

\* repr(v) of a parsed JSON value; a row of a list is a dict, written with
\* its keys in the order the input file has them: json.load keeps that order,
\* and the row carries it in its field "order"
RECURSIVE ReprValue(_)
RECURSIVE ReprRow(_, _, _)
RECURSIVE ReprRows(_)
ReprValue(v) ==
    CASE v.t = "str"  -> Repr(v.s)
      [] v.t = "num"  -> (IF v.n < 0 THEN "-" \o NatStr(-v.n) ELSE NatStr(v.n))
      [] v.t = "null" -> "None"
      [] OTHER        -> "[" \o ReprRows(v.rows) \o "]"

ReprRow(row, keys, first) ==
    IF Len(keys) = 0 THEN ""
    ELSE IF row[keys[1]].t = "absent" THEN ReprRow(row, Tail(keys), first)
    ELSE (IF first THEN "" ELSE ", ")
         \o Repr(keys[1]) \o ": " \o ReprValue(row[keys[1]])
         \o ReprRow(row, Tail(keys), FALSE)

ReprRows(rows) ==
    IF Len(rows) = 0 THEN ""
    ELSE "{" \o ReprRow(rows[1], rows[1].order, TRUE) \o "}"
         \o (IF Len(rows) > 1 THEN ", " ELSE "") \o ReprRows(Tail(rows))

\* str(v) as an f-string interpolates it
PyStr(v) == IF v.t = "str" THEN v.s ELSE ReprValue(v)

TypeName(v) ==
    CASE v.t = "str"  -> "str"
      [] v.t = "num"  -> "int"
      [] v.t = "null" -> "NoneType"
      [] OTHER        -> "list"

\* -------------------------------------------------------------- exceptions
NoExc == [type |-> "none", msg |-> "", at |-> ""]
Exc(type, msg, at) == [type |-> type, msg |-> msg, at |-> at]

\* v.<method>(...) on a value that is no string (or no dict)
NoAttr(v, method, at) ==
    Exc("AttributeError",
        "'" \o TypeName(v) \o "' object has no attribute '" \o method \o "'", at)

\* ----------------------------------------------------------------- numbers
\* A natural number of any size: its limbs of base 10^4, the lowest first,
\* with no zero limb at the top (zero is <<>>).
BigTrim(a) ==
    LET n == Len(a)
        top == IF \E i \in 1..n : a[i] # 0
               THEN CHOOSE i \in 1..n : a[i] # 0 /\ \A j \in (i + 1)..n : a[j] = 0
               ELSE 0
    IN  SubSeq(a, 1, top)

\* The number a string of digits writes
BigOfDigits(s) ==
    LET n == Len(s)
        Low(i) == IF n - 4 * i + 1 < 1 THEN 1 ELSE n - 4 * i + 1
    IN  BigTrim([i \in 1..((n + 3) \div 4) |-> StrToNat(SubSeq(s, Low(i), n - 4 * (i - 1)))])

\* The limbs lo..hi of a, four digits each, the highest first
RECURSIVE BigLimbs(_, _, _)
BigLimbs(a, lo, hi) ==
    IF lo > hi THEN ""
    ELSE IF lo = hi THEN PadLeft(NatStr(a[lo]), 4)
    ELSE BigLimbs(a, (lo + hi) \div 2 + 1, hi) \o BigLimbs(a, lo, (lo + hi) \div 2)

\* -1, 0 or 1 as a is less than, equal to or greater than b
BigCmp(a, b) ==
    LET n == Len(a)
        Differ(k) == a[n + 1 - k] # b[n + 1 - k]
        At(k) == IF a[n + 1 - k] < b[n + 1 - k] THEN -1 ELSE 1
    IN  IF n # Len(b) THEN (IF n < Len(b) THEN -1 ELSE 1)
        ELSE IF \A k \in 1..n : ~Differ(k) THEN 0
        ELSE At(CHOOSE k \in 1..n : Differ(k) /\ \A j \in 1..(k - 1) : ~Differ(j))

\* The number whose n places hold the sums s, each below 2 * 10^4 - 1: a
\* carry enters place i when the nearest place below it that is not 10^4 - 1
\* holds 10^4 or more
BigNorm(s, n) ==
    LET Run(i) == CHOOSE k \in 1..i :
                      (k = i \/ s[i - k] # 9999) /\ \A j \in 1..(k - 1) : s[i - j] = 9999
        Carry(i) == Run(i) < i /\ s[i - Run(i)] >= 10000
    IN  BigTrim([i \in 1..n |-> (s[i] + (IF Carry(i) THEN 1 ELSE 0)) % 10000])

\* a * m for m up to 10^4
BigMulSmall(a, m) ==
    LET n == Len(a)
        P(i) == IF i >= 1 /\ i <= n THEN a[i] * m ELSE 0
    IN  BigNorm([i \in 1..(n + 1) |-> (P(i) % 10000) + (P(i - 1) \div 10000)], n + 1)

BigAdd(a, b) ==
    LET n == IF Len(a) > Len(b) THEN Len(a) ELSE Len(b)
        Limb(x, i) == IF i <= Len(x) THEN x[i] ELSE 0
    IN  BigNorm([i \in 1..(n + 1) |-> Limb(a, i) + Limb(b, i)], n + 1)

\* a - b for a >= b: place i lends to the places below it when the nearest
\* place below where the limbs differ has the smaller limb in a
BigSub(a, b) ==
    LET n == Len(a)
        Diff(i) == a[i] - (IF i <= Len(b) THEN b[i] ELSE 0)
        Run(i) == CHOOSE k \in 1..i :
                      (k = i \/ Diff(i - k) # 0) /\ \A j \in 1..(k - 1) : Diff(i - j) = 0
        Borrow(i) == Run(i) < i /\ Diff(i - Run(i)) < 0
    IN  BigTrim([i \in 1..n |-> (Diff(i) - (IF Borrow(i) THEN 1 ELSE 0) + 10000) % 10000])

\* a * 2^k
RECURSIVE BigMulPow2(_, _)
BigMulPow2(a, k) ==
    IF Len(a) = 0 \/ k = 0 THEN a
    ELSE IF k <= 13 THEN BigMulSmall(a, 2 ^ k)
    ELSE BigMulPow2(BigMulPow2(a, k \div 2), k - k \div 2)

\* a * 10^k
BigMulPow10(a, k) ==
    IF Len(a) = 0 THEN a
    ELSE [i \in 1..(k \div 4) |-> 0] \o BigMulSmall(a, 10 ^ (k % 4))

\* The quotient (its limbs, zeros at the top kept) and the remainder of
\* (rem * 10^(4 * Len(a)) + a) by m, for rem < m <= 2^13
RECURSIVE BigDivSmall(_, _, _)
BigDivSmall(a, m, rem) ==
    LET n == Len(a)
        Step(v) ==
            LET Joined(rest) == [q |-> Append(rest.q, v \div m), r |-> rest.r]
            IN  Joined(BigDivSmall(SubSeq(a, 1, n - 1), m, v % m))
    IN  IF rem < m /\ n = 0 THEN [q |-> <<>>, r |-> rem]
        ELSE Step(rem * 10000 + a[n])

\* a \div 2^k, and whether a nonzero bit was dropped here or before
RECURSIVE BigShiftRight(_, _, _)
BigShiftRight(a, k, sticky) ==
    LET Step(j) ==
            LET Shifted(dv) == BigShiftRight(BigTrim(dv.q), k - j, sticky \/ dv.r # 0)
            IN  Shifted(BigDivSmall(a, 2 ^ j, 0))
    IN  IF sticky /\ Len(a) = 0 THEN [v |-> a, sticky |-> TRUE]
        ELSE IF Len(a) = 0 \/ k = 0 THEN [v |-> a, sticky |-> sticky]
        ELSE Step(IF k > 13 THEN 13 ELSE k)

\* The quotient, of at most i + 1 digits and put after those of acc, and the
\* remainder of rem by den, and how twice the remainder compares with den.
\* The digit at place i is the number of the multiples s, 2s .. 9s of
\* s = den * 10^i that rem holds.
RECURSIVE BigDivMod(_, _, _, _)
BigDivMod(rem, den, i, acc) ==
    LET Digit(s) == Cardinality({k \in 1..9 : BigCmp(BigMulSmall(s, k), rem) <= 0})
        Step(s, d) ==
            BigDivMod(BigSub(rem, BigMulSmall(s, d)), den, i - 1,
                      BigAdd(BigMulSmall(acc, 10), IF d = 0 THEN <<>> ELSE <<d>>))
    IN  IF Len(den) = 0 \/ (Len(rem) + Len(acc) >= 0 /\ i < 0)
        THEN [q |-> acc, r |-> rem, half |-> BigCmp(BigMulSmall(rem, 2), den)]
        ELSE Step(BigMulPow10(den, i), Digit(BigMulPow10(den, i)))

\* A float: the finite ones are m * 2^q with a sign (the sign of a zero is
\* kept, as in -0.0), m below 2^53 or any integer when q is 0; the others
\* are the infinities and nan.
Fin(neg, m, q) == [kind |-> "fin", neg |-> neg, m |-> m, q |-> q]
Inf(neg) == [kind |-> "inf", neg |-> neg, m |-> <<>>, q |-> 0]
NaN == [kind |-> "nan", neg |-> FALSE, m |-> <<>>, q |-> 0]

\* float(k) of an int
FromInt(k) == Fin(k < 0, BigOfDigits(NatStr(IF k < 0 THEN -k ELSE k)), 0)

\* The number of digits of s from place i on
DigitRun(s, i) ==
    LET stop == CHOOSE j \in i..(Len(s) + 1) :
                    /\ ~IsDigit(Ch(s, j))
                    /\ \A k \in i..(j - 1) : IsDigit(Ch(s, k))
    IN  stop - i

StripLeadingZeros(s) ==
    SubSeq(s, CHOOSE j \in 1..(Len(s) + 1) :
                  Ch(s, j) # "0" /\ \A k \in 1..(j - 1) : Ch(s, k) = "0",
           Len(s))

StripTrailingZeros(s) ==
    SubSeq(s, 1, CHOOSE j \in 0..Len(s) :
                     Ch(s, j) # "0" /\ \A k \in (j + 1)..Len(s) : Ch(s, k) = "0")

\* The float nearest to a / b, a tie going to the even significand, for a
\* quotient from 2^lo up to 2^(lo + 7); a whole number up to 2^53 is a float
\* as it stands.  The quotient lies in the binade f, from 2^f up to 2^(f + 1),
\* and is rounded to a whole number of 2^(f - 52), or of 2^-1074 for the
\* subnormals.
Nearest(neg, a, b, lo) ==
    LET two53 == BigOfDigits("9007199254740992")
        AtLeast(k) == IF k >= 0 THEN BigCmp(a, BigMulPow2(b, k)) >= 0
                      ELSE BigCmp(BigMulPow2(a, -k), b) >= 0
        Made(m, q) == IF q = 971 /\ m = two53 THEN Inf(neg) ELSE Fin(neg, m, q)
        Round(dm, q) ==
            Made(IF dm.half > 0 \/ (dm.half = 0 /\ Len(dm.q) > 0 /\ dm.q[1] % 2 = 1)
                 THEN BigAdd(dm.q, <<1>>) ELSE dm.q,
                 q)
        Exp2(f) == IF f - 52 < -1074 THEN -1074 ELSE f - 52
        Scaled(f) ==
            IF f >= 1024 THEN Inf(neg)
            ELSE Round(BigDivMod(IF Exp2(f) < 0 THEN BigMulPow2(a, -Exp2(f)) ELSE a,
                                 IF Exp2(f) > 0 THEN BigMulPow2(b, Exp2(f)) ELSE b,
                                 16, <<>>),
                       Exp2(f))
    IN  IF b = <<1>> /\ BigCmp(a, two53) <= 0 THEN Fin(neg, a, 0)
        ELSE Scaled(CHOOSE f \in lo..(lo + 6) : AtLeast(f) /\ ~AtLeast(f + 1))

\* The float of the significant digits sig (no zero at either end) times
\* 10^e, as the correctly rounded conversion gives it: the double nearest to
\* sig * 10^e, which lies from 10^top up to 10^(top + 1)
Decimal(neg, sig, e) ==
    LET top == Len(sig) - 1 + e
    IN  IF Len(sig) = 0 THEN Fin(neg, <<>>, 0)
        ELSE IF top > 308 THEN Inf(neg)
        ELSE IF top < -324 THEN Fin(neg, <<>>, 0)
        ELSE Nearest(neg, BigMulPow10(BigOfDigits(sig), IF e > 0 THEN e ELSE 0),
                     BigMulPow10(<<1>>, IF e < 0 THEN -e ELSE 0),
                     (top * 33219) \div 10000 - 1)

\* The white space float() drops around a number: \t \n \v \f \r, the
\* blank, NEL and the no-break space (not the separators 28 to 31)
IsFloatSpace(c) == Len(c) = 1 /\ Ord(c) \in ((9..13) \cup {32, 133, 160})

RECURSIVE FloatStrip(_)
FloatStrip(s) ==
    IF Len(s) > 0 /\ IsFloatSpace(Ch(s, 1)) THEN FloatStrip(SubSeq(s, 2, Len(s)))
    ELSE IF Len(s) > 0 /\ IsFloatSpace(Ch(s, Len(s)))
    THEN FloatStrip(SubSeq(s, 1, Len(s) - 1))
    ELSE s

\* float(s) of a string: white space around it is dropped; an underscore may
\* stand between two digits; then [sign] (digits [. [digits]] | . digits)
\* [(e|E) [sign] digits], or [sign] inf | infinity | nan in any case.  The
\* exponent counts as written, whatever its length, up to the conversion's
\* cap: one of more than nine digits after its leading zeros counts as
\* 1100000000, which no number of digits the interpreter can hold makes up for.
ParseFloat(s) ==
    LET Bad == [ok |-> FALSE, kind |-> "nan", neg |-> FALSE, sig |-> "", e |-> 0]
        Number(neg, digs, sig, exp) ==
            [ok |-> TRUE, kind |-> "fin", neg |-> neg, sig |-> sig,
             e |-> exp + (Len(digs) - Len(sig))]
        Value(p) ==
            [ok |-> p.ok,
             x |-> CASE p.kind = "inf" -> Inf(p.neg)
                     [] p.kind = "nan" -> NaN
                     [] OTHER -> Decimal(p.neg, p.sig, p.e)]
        Mantissa(neg, digs, exp) == Number(neg, digs, StripTrailingZeros(digs), exp)
        Exponent(neg, r, n1, n2, hasExp, expNeg, expStart, n3, expDigits) ==
            LET expAbs == IF Len(expDigits) > 9 THEN 1100000000 ELSE StrToNat(expDigits)
                end == IF hasExp THEN expStart + n3 ELSE expStart - 1
            IN  IF ~(n1 + n2 >= 1 /\ (hasExp => n3 >= 1) /\ end = Len(r) + 1) THEN Bad
                ELSE Mantissa(neg,
                              StripLeadingZeros(SubSeq(r, 1, n1)
                                                \o SubSeq(r, n1 + 2, n1 + n2 + 1)),
                              (IF ~hasExp THEN 0 ELSE IF expNeg THEN -expAbs ELSE expAbs)
                                  - n2)
        ExpDigits(neg, r, n1, n2, hasExp, expNeg, expStart, n3) ==
            Exponent(neg, r, n1, n2, hasExp, expNeg, expStart, n3,
                     StripLeadingZeros(SubSeq(r, expStart, expStart + n3 - 1)))
        ExpStart(neg, r, n1, n2, hasExp, expNeg, expStart) ==
            ExpDigits(neg, r, n1, n2, hasExp, expNeg, expStart,
                      IF hasExp THEN DigitRun(r, expStart) ELSE 0)
        AfterMant(neg, r, n1, n2, afterMant) ==
            ExpStart(neg, r, n1, n2, Ch(r, afterMant) \in {"e", "E"},
                     Ch(r, afterMant) \in {"e", "E"} /\ Ch(r, afterMant + 1) = "-",
                     IF Ch(r, afterMant) \in {"e", "E"} /\ Ch(r, afterMant + 1) \in {"+", "-"}
                     THEN afterMant + 2 ELSE afterMant + 1)
        Fraction(neg, r, n1, hasDot, n2) ==
            AfterMant(neg, r, n1, n2, IF hasDot THEN n1 + n2 + 2 ELSE n1 + 1)
        Whole(neg, r, n1) ==
            Fraction(neg, r, n1, Ch(r, n1 + 1) = ".",
                     IF Ch(r, n1 + 1) = "." THEN DigitRun(r, n1 + 2) ELSE 0)
        Unsigned(neg, r, word) ==
            IF word \in {"inf", "infinity"}
            THEN [ok |-> TRUE, kind |-> "inf", neg |-> neg, sig |-> "", e |-> 0]
            ELSE IF word = "nan"
            THEN [ok |-> TRUE, kind |-> "nan", neg |-> neg, sig |-> "", e |-> 0]
            ELSE Whole(neg, r, DigitRun(r, 1))
        Sign(neg, r) == Unsigned(neg, r, Lower(r))
        Plain(c) ==
            Sign(Ch(c, 1) = "-", IF Ch(c, 1) \in {"+", "-"} THEN SubSeq(c, 2, Len(c)) ELSE c)
        Stripped(t) ==
            IF \A i \in 1..Len(t) :
                   Ch(t, i) = "_" => (IsDigit(Ch(t, i - 1)) /\ IsDigit(Ch(t, i + 1)))
            THEN Plain(Replace(t, "_", ""))
            ELSE Bad
    IN  Value(Stripped(FloatStrip(s)))

\* float(v) of a parsed JSON value
Float(v, at) ==
    LET OfString(p) ==
            IF p.ok THEN [exc |-> NoExc, x |-> p.x]
            ELSE [exc |-> Exc("ValueError",
                              "could not convert string to float: " \o Repr(v.s), at),
                  x |-> NaN]
    IN  CASE v.t = "num" -> [exc |-> NoExc, x |-> FromInt(v.n)]
          [] v.t = "str" -> OfString(ParseFloat(v.s))
          [] OTHER ->
                [exc |-> Exc("TypeError",
                             "float() argument must be a string or a real number, not '"
                                \o TypeName(v) \o "'", at),
                 x |-> NaN]

\* The digits of a whole number with a comma before every third from the end
RECURSIVE Grouped(_)
Grouped(s) ==
    LET cut == Len(s) - 3 * (((Len(s) + 2) \div 3) \div 2)
    IN  IF Len(s) <= 3 THEN s
        ELSE Grouped(SubSeq(s, 1, cut)) \o "," \o Grouped(SubSeq(s, cut + 1, Len(s)))

\* format(x, ",.<d>f") and format(x, ".<d>f"): the exact value of the double
\* rounded to an integer number of 10^-d, a tie to the even one
Fixed(x, d, comma) ==
    LET Halved(t) ==
            LET Floor(fl) ==
                    IF /\ Len(t.v) > 0 /\ t.v[1] % 2 = 1
                       /\ (t.sticky \/ (Len(fl) > 0 /\ fl[1] % 2 = 1))
                    THEN BigAdd(fl, <<1>>) ELSE fl
            IN  Floor(BigTrim(BigDivSmall(t.v, 2, 0).q))
        RoundShift(a, k) == Halved(BigShiftRight(a, k - 1, FALSE))
        Shown(s) ==
            (IF comma THEN Grouped(SubSeq(s, 1, Len(s) - d)) ELSE SubSeq(s, 1, Len(s) - d))
                \o (IF d > 0 THEN "." ELSE "") \o SubSeq(s, Len(s) - d + 1, Len(s))
        Places(r) == Shown(PadLeft(StripLeadingZeros(BigLimbs(r, 1, Len(r))), d + 1))
    IN  IF x.kind = "nan" THEN "nan"
        ELSE (IF x.neg THEN "-" ELSE "")
             \o (IF x.kind = "inf" THEN "inf"
                 ELSE IF x.q >= 0 THEN Places(BigMulPow10(BigMulPow2(x.m, x.q), d))
                 ELSE Places(RoundShift(BigMulPow10(x.m, d), -x.q)))

format_currency(amount) == "$" \o Fixed(amount, 2, TRUE)

\* ------------------------------------------------------------------ base64
B64Alphabet == "ABCDEFGHIJKLMNOPQRSTUVWXYZabcdefghijklmnopqrstuvwxyz0123456789+/"
InB64(c) == \E i \in 1..64 : Ch(B64Alphabet, i) = c
B64Val(c) == (CHOOSE i \in 1..64 : Ch(B64Alphabet, i) = c) - 1

\* The bytes of a run q of 6-bit digits: three per full group of four, one for
\* a final group of two, two for a final group of three.
SextetsToBytes(q) ==
    LET m == Len(q)
        count == (m \div 4) * 3 + (IF m % 4 = 2 THEN 1 ELSE IF m % 4 = 3 THEN 2 ELSE 0)
    IN  [b \in 1..count |->
            LET g == ((b - 1) \div 3) * 4
            IN  CASE (b - 1) % 3 = 0 -> q[g + 1] * 4 + (q[g + 2] \div 16)
                  [] (b - 1) % 3 = 1 -> (q[g + 2] % 16) * 16 + (q[g + 3] \div 4)
                  [] OTHER           -> (q[g + 3] % 4) * 64 + q[g + 4]]

\* base64.b64decode(s) of a string: the string is first encoded as ASCII,
\* which raises ValueError on a character of code 128 or more.  Then
\* binascii.a2b_base64 without strict mode: characters outside the alphabet
\* are skipped; a "=" met with two or three digits in the open group counts as
\* padding, and the padding that completes the group ends the input; digits
\* left in an open group at the end of the input are an error.
b64decode(s) ==
    LET n == Len(s)
        digitsAt == {j \in 1..n : InB64(Ch(s, j))}
        \* digits among s[1..j]
        seen == [j \in 0..n |-> Cardinality({k \in digitsAt : k <= j})]
        \* "=" since the last digit before j, s[j] included
        pads(j) == Cardinality({k \in 1..j : Ch(s, k) = "="
                                  /\ \A d \in digitsAt : d < j => d < k})
        ends(j) == Ch(s, j) = "=" /\ seen[j] % 4 >= 2 /\ (seen[j] % 4) + pads(j) >= 4
        stop == IF \E j \in 1..n : ends(j)
                THEN CHOOSE j \in 1..n : ends(j) /\ \A k \in 1..(j - 1) : ~ends(k)
                ELSE n + 1
        used == {j \in digitsAt : j < stop}
        m == Cardinality(used)
        q == [k \in 1..m |-> B64Val(Ch(s, CHOOSE j \in used : seen[j] = k))]
    IN  IF \E j \in 1..n : Ord(Ch(s, j)) >= 128
        THEN [ok |-> FALSE, bytes |-> <<>>, type |-> "ValueError",
              err |-> "string argument should contain only ASCII characters"]
        ELSE IF stop <= n \/ m % 4 = 0
        THEN [ok |-> TRUE, bytes |-> SextetsToBytes(q), type |-> "", err |-> ""]
        ELSE [ok |-> FALSE, bytes |-> <<>>, type |-> "binascii.Error",
              err |-> IF m % 4 = 1
                      THEN "Invalid base64-encoded string: number of data characters ("
                           \o NatStr(m) \o ") cannot be 1 more than a multiple of 4"
                      ELSE "Incorrect padding"]

\* A 1x1 greyscale PNG, the image the bounded inputs carry.
PngBytes ==
    <<137, 80, 78, 71, 13, 10, 26, 10, 0, 0, 0, 13, 73, 72, 68, 82, 0, 0, 0, 1,
      0, 0, 0, 1, 8, 0, 0, 0, 0, 58, 126, 155, 85, 0, 0, 0, 10, 73, 68, 65, 84,
      120, 156, 99, 96, 0, 0, 0, 2, 0, 1, 72, 175, 164, 113, 0, 0, 0, 0, 73, 69,
      78, 68, 174, 66, 96, 130>>
PngB64 ==
    "iVBORw0KGgoAAAANSUhEUgAAAAEAAAABCAAAAAA6fptVAAAACklEQVR4nGNgAAAAAgABSK+kcQAAAABJRU5ErkJggg=="

\* Image(BytesIO(sig_bytes), ...), line 115: the flowable opens a file object
\* when it is constructed, and the image library identifies the format from
\* the head of the file alone: for a PNG the signature, the IHDR chunk with
\* its checksum and the header of the first IDAT chunk (41 bytes here).  It
\* raises on bytes it cannot identify.  Of the byte strings the bounded inputs
\* decode to, it identifies those that begin as PngBytes does.
ImageIdentified(bytes) ==
    Len(bytes) >= 41 /\ SubSeq(bytes, 1, 41) = SubSeq(PngBytes, 1, 41)

\* The pixels are decoded when the image is drawn, in doc.build (line 155):
\* an identified file whose data stops short does not decode.
ImageDecodes(bytes) == bytes = PngBytes

\* ------------------------------------------------------------------- dates
\* datetime.fromisoformat as the interpreter that runs the scripts has it
\* (CPython 3.11): it reads the UTF-8 bytes of the string, a zero byte after
\* the last.  Offsets into the bytes count from 0.
IsLeap(y) == (y % 4 = 0 /\ y % 100 # 0) \/ y % 400 = 0

DaysInMonth(y, m) ==
    IF m = 2 THEN (IF IsLeap(y) THEN 29 ELSE 28)
    ELSE IF m \in {4, 6, 9, 11} THEN 30 ELSE 31

BadDate == [ok |-> FALSE, year |-> 0, month |-> 0, day |-> 0, hour |-> 0, minute |-> 0]

\* The bytes of s: a character of code 128 or more takes two, neither of
\* which is an ASCII character (the character stands for each of them)
RECURSIVE Utf8(_)
Utf8(s) ==
    IF Len(s) = 0 THEN ""
    ELSE IF Len(s) = 1 THEN (IF Ord(s) >= 128 THEN s \o s ELSE s)
    ELSE Utf8(SubSeq(s, 1, Len(s) \div 2)) \o Utf8(SubSeq(s, Len(s) \div 2 + 1, Len(s)))

\* The byte at offset p; "" is the zero byte at and after the end
ByteAt(b, p) == Ch(b, p + 1)

\* parse_digits: n digits from offset p on, as a number; -1 when one of them
\* is no digit
ParseDigits(b, p, n) ==
    IF \A k \in 0..(n - 1) : IsDigit(ByteAt(b, p + k))
    THEN StrToNat(SubSeq(b, p + 1, p + n))
    ELSE -1

\* ymd_to_ord(y, 1, 1) - 1
DaysBeforeYear(y) == (y - 1) * 365 + ((y - 1) \div 4) - ((y - 1) \div 100) + ((y - 1) \div 400)

RECURSIVE DaysBeforeMonth(_, _)
DaysBeforeMonth(y, m) ==
    IF m = 1 THEN 0 ELSE DaysBeforeMonth(y, m - 1) + DaysInMonth(y, m - 1)

\* iso_week1_monday: the ordinal of the Monday that starts ISO week 1
IsoWeek1Monday(y) ==
    LET first_day == DaysBeforeYear(y) + 1
        first_weekday == (first_day + 6) % 7
        week1_monday == first_day - first_weekday
    IN  IF first_weekday > 3 THEN week1_monday + 7 ELSE week1_monday

\* ord_to_ymd, for an ordinal of year y - 1, y or y + 1
OrdToYmd(ord, y) ==
    LET year == CHOOSE c \in {y - 1, y, y + 1} :
                    DaysBeforeYear(c) < ord /\ ord <= DaysBeforeYear(c + 1)
        n == ord - DaysBeforeYear(year)
        month == CHOOSE m \in 1..12 :
                    DaysBeforeMonth(year, m) < n
                    /\ n <= DaysBeforeMonth(year, m) + DaysInMonth(year, m)
    IN  [ok |-> TRUE, year |-> year, month |-> month, day |-> n - DaysBeforeMonth(year, month)]

NoYmd == [ok |-> FALSE, year |-> 0, month |-> 0, day |-> 0]

\* iso_to_ymd: the date of day iso_day of week iso_week of ISO year y.  Week
\* 53 exists in years that start on a Thursday and leap years that start on a
\* Wednesday.  No week of year 0 has a date the calendar holds.
IsoToYmd(y, iso_week, iso_day) ==
    LET first_weekday == (DaysBeforeYear(y) + 1 + 6) % 7
        weekOk == \/ (iso_week >= 1 /\ iso_week <= 52)
                  \/ /\ iso_week = 53
                     /\ (first_weekday = 3 \/ (first_weekday = 2 /\ IsLeap(y)))
    IN  IF y < 1 \/ ~weekOk \/ iso_day < 1 \/ iso_day > 7 THEN NoYmd
        ELSE OrdToYmd(IsoWeek1Monday(y) + (iso_week - 1) * 7 + iso_day - 1, y)

\* _find_isoformat_datetime_separator: the offset of the character between
\* the date and the time; -1 for a week date cut short
FindSeparator(b) ==
    LET len == Len(b)
        idx == CHOOSE i \in 7..(IF len < 7 THEN 7 ELSE len) :
                   /\ (i >= len \/ ~IsDigit(ByteAt(b, i)))
                   /\ \A k \in 7..(i - 1) : IsDigit(ByteAt(b, k))
    IN  IF len = 7 THEN 7
        ELSE IF ByteAt(b, 4) = "-"
        THEN IF ByteAt(b, 5) = "W"
             THEN IF len < 8 THEN -1
                  ELSE IF len > 8 /\ ByteAt(b, 8) = "-"
                  THEN IF len = 9 THEN -1
                       ELSE IF len > 10 /\ IsDigit(ByteAt(b, 10)) THEN 8
                       ELSE 10
                  ELSE 8
             ELSE 10
        ELSE IF ByteAt(b, 4) = "W"
        THEN IF idx < 9 THEN idx ELSE IF idx % 2 = 0 THEN 7 ELSE 8
        ELSE 8

\* parse_isoformat_date over the first len bytes: YYYY[-]MM[-]DD, or
\* YYYY[-]Www[[-]D]
ParseIsoDate(b, len) ==
    LET year == ParseDigits(b, 0, 4)
        uses_separator == ByteAt(b, 4) = "-"
        p == IF uses_separator THEN 5 ELSE 4
        iso_week == ParseDigits(b, p + 1, 2)
        hasDay == p + 3 < len
        dayAt == IF uses_separator THEN p + 4 ELSE p + 3
        iso_day == IF hasDay THEN ParseDigits(b, dayAt, 1) ELSE 1
        month == ParseDigits(b, p, 2)
        q == IF uses_separator THEN p + 3 ELSE p + 2
        day == ParseDigits(b, q, 2)
    IN  IF year < 0 THEN NoYmd
        ELSE IF ByteAt(b, p) = "W"
        THEN IF iso_week < 0 THEN NoYmd
             ELSE IF hasDay /\ uses_separator /\ ByteAt(b, p + 3) # "-" THEN NoYmd
             ELSE IF iso_day < 0 THEN NoYmd
             ELSE IsoToYmd(year, iso_week, iso_day)
        ELSE IF month < 0 THEN NoYmd
        ELSE IF uses_separator /\ ByteAt(b, p + 2) # "-" THEN NoYmd
        ELSE IF day < 0 THEN NoYmd
        ELSE [ok |-> TRUE, year |-> year, month |-> month, day |-> day]

\* The fraction of parse_hh_mm_ss_ff, from offset p on: up to six digits are
\* read and further digits skipped.  rv is 1 when a byte follows, 0 at the
\* end of the string.
ParseFraction(b, p, p_end, vals) ==
    LET to_parse == IF p_end - p >= 6 THEN 6 ELSE p_end - p
        after == CHOOSE j \in (p + to_parse)..(Len(b) + 1) :
                     /\ ~IsDigit(ByteAt(b, j))
                     /\ \A k \in (p + to_parse)..(j - 1) : IsDigit(ByteAt(b, k))
    IN  IF ParseDigits(b, p, to_parse) < 0 THEN [rv |-> -3, vals |-> vals]
        ELSE [rv |-> IF ByteAt(b, after) # "" THEN 1 ELSE 0, vals |-> vals]

\* parse_hh_mm_ss_ff: HH[:MM[:SS]] or HH[MM[SS]] between offsets p and p_end,
\* then a fraction.  i counts the components read, vals holds them.  rv is
\* negative for a malformed time, 1 when the parse stopped on a byte that is
\* not the end of the string, 0 otherwise.
RECURSIVE ParseHhMmSs(_, _, _, _, _, _)
ParseHhMmSs(b, p, p_end, i, has_separator, vals) ==
    LET v == ParseDigits(b, p, 2)
        c == ByteAt(b, p + 2)
        sep == IF i = 0 THEN c = ":" ELSE has_separator
        got == Append(vals, v)
        filled == got \o [k \in 1..(3 - Len(got)) |-> 0]
    IN  IF i = 3 THEN ParseFraction(b, p, p_end, vals)
        ELSE IF v < 0 THEN [rv |-> -3, vals |-> vals]
        ELSE IF p + 3 >= p_end THEN [rv |-> IF c # "" THEN 1 ELSE 0, vals |-> filled]
        ELSE IF sep /\ c = ":" THEN ParseHhMmSs(b, p + 3, p_end, i + 1, sep, got)
        ELSE IF c \in {".", ","} THEN ParseFraction(b, p + 3, p_end, filled)
        ELSE IF ~sep THEN ParseHhMmSs(b, p + 2, p_end, i + 1, sep, got)
        ELSE [rv |-> -4, vals |-> vals]

\* parse_isoformat_time over the bytes from offset p to the end, and the
\* checks of the time and of the offset that the constructor makes: the hour
\* is under 24, minute and second under 60, and the offset under 24 hours
ParseIsoTime(b, p) ==
    LET p_end == Len(b)
        isTz(j) == ByteAt(b, j) \in {"Z", "+", "-"}
        bad == [ok |-> FALSE, hour |-> 0, minute |-> 0]
        Checked(tzinfo_pos, t, tz) ==
            LET timeOk == t.vals[1] <= 23 /\ t.vals[2] <= 59 /\ t.vals[3] <= 59
                ok == [ok |-> timeOk, hour |-> t.vals[1], minute |-> t.vals[2]]
            IN  IF p >= p_end \/ t.rv < 0 THEN bad
                ELSE IF tzinfo_pos = p_end THEN (IF t.rv = 1 THEN bad ELSE ok)
                ELSE IF ByteAt(b, tzinfo_pos) = "Z"
                THEN (IF tzinfo_pos + 1 # p_end THEN bad ELSE ok)
                ELSE IF tz.rv # 0 THEN bad
                ELSE IF tz.vals[1] * 3600 + tz.vals[2] * 60 + tz.vals[3] >= 86400
                THEN bad
                ELSE ok
        TimeAndZone(tzinfo_pos) ==
            Checked(tzinfo_pos,
                    ParseHhMmSs(b, p, tzinfo_pos, 0, TRUE, <<>>),
                    ParseHhMmSs(b, tzinfo_pos + 1, p_end, 0, TRUE, <<>>))
    IN  TimeAndZone(IF \E j \in p..(p_end - 1) : isTz(j)
                    THEN CHOOSE j \in p..(p_end - 1) :
                             isTz(j) /\ \A k \in p..(j - 1) : ~isTz(k)
                    ELSE p_end)

\* datetime.fromisoformat(s).  An offset makes the datetime aware and leaves
\* its fields as read.
fromisoformat(s) ==
    LET Fields(d, t, has_time) ==
            IF ~(/\ d.ok
                 /\ d.year >= 1 /\ d.year <= 9999
                 /\ d.month >= 1 /\ d.month <= 12
                 /\ d.day >= 1 /\ d.day <= DaysInMonth(d.year, d.month))
            THEN BadDate
            ELSE IF ~has_time
            THEN [ok |-> TRUE, year |-> d.year, month |-> d.month, day |-> d.day,
                  hour |-> 0, minute |-> 0]
            ELSE IF t.ok
            THEN [ok |-> TRUE, year |-> d.year, month |-> d.month, day |-> d.day,
                  hour |-> t.hour, minute |-> t.minute]
            ELSE BadDate
        DateAndTime(b, len, separator_location, wide) ==
            IF len < 7 \/ separator_location < 0 THEN BadDate
            ELSE Fields(ParseIsoDate(b, separator_location),
                        ParseIsoTime(b, separator_location + wide),
                        len > separator_location)
        Separated(b, separator_location) ==
            DateAndTime(b, Len(b), separator_location,
                        IF Ord(ByteAt(b, separator_location)) >= 128 THEN 2 ELSE 1)
        Bytes(b) == Separated(b, FindSeparator(b))
    IN  Bytes(Utf8(s))

MonthNames == <<"January", "February", "March", "April", "May", "June", "July",
                "August", "September", "October", "November", "December">>

\* "%I": the hour on the 12-hour clock

\* dt.strftime('%B %d, %Y at %I:%M %p')
strftime(dt) ==
    MonthNames[dt.month] \o " " \o PadLeft(NatStr(dt.day), 2) \o ", " \o NatStr(dt.year)
        \o " at " \o PadLeft(NatStr(IF dt.hour % 12 = 0 THEN 12 ELSE dt.hour % 12), 2)
        \o ":" \o PadLeft(NatStr(dt.minute), 2)
        \o " " \o (IF dt.hour < 12 THEN "AM" ELSE "PM")

\* ---------------------------------------------------------------- json.load
\* The decoder of json.load, over the text of the input file.  Places count
\* from 0 as its messages count them; the character of place i is
\* Ch(s, i + 1).  A scan ends as [ok, end, msg, pos, type]: the place after
\* what it read, or the message and the place of a JSONDecodeError; an
\* exception of another type has its own message and no place.
\*
\* Every array and object is a recursive call of the decoder, and under the
\* interpreter's recursion limit of 1000 the json.load of __main__ has 994 of
\* them: depth counts the arrays and objects a place is inside of.
JsonScan(end, msg, pos) ==
    [ok |-> msg = "", end |-> end, msg |-> msg, pos |-> pos,
     type |-> IF msg = "" THEN "none" ELSE "JSONDecodeError"]

\* An error the scanner raises itself, every one but "Expecting value": it
\* calls JSONDecodeError, whose __init__ counts the lines of the text, three
\* calls deep; inside more than 991 arrays and objects the recursion limit
\* stops one of them
JsonError(msg, pos, depth) ==
    IF depth <= 991 THEN JsonScan(0, msg, pos)
    ELSE [ok |-> FALSE, end |-> 0, pos |-> 0, type |-> "RecursionError",
          msg |-> "maximum recursion depth exceeded"
                  \o (IF depth = 993 THEN "" ELSE " while calling a Python object")]

\* The place of the first character from i on that is no JSON white space
JsonWs(s, i) ==
    CHOOSE j \in i..Len(s) :
        /\ \A k \in i..(j - 1) : Ch(s, k + 1) \in {" ", "\t", "\n", "\r"}
        /\ Ch(s, j + 1) \notin {" ", "\t", "\n", "\r"}

\* scanstring, strict: the string whose opening quote is at begin, read from
\* end on up to its closing quote
RECURSIVE JsonString(_, _, _, _)
JsonString(s, begin, end, depth) ==
    LET IsHex(x) == \E k \in 1..22 : Ch("0123456789abcdefABCDEF", k) = x
        \* next: the place of the first quote, backslash or control character
        Stop(next, c, esc) ==
            IF c = "\"" THEN JsonScan(next + 1, "", 0)
            ELSE IF c # "\\" THEN JsonError("Invalid control character at", next, depth)
            ELSE IF next + 1 = Len(s)
            THEN JsonError("Unterminated string starting at", begin, depth)
            ELSE IF esc # "u"
            THEN IF esc \in {"\"", "\\", "/", "b", "f", "n", "r", "t"}
                 THEN JsonString(s, begin, next + 2, depth)
                 ELSE JsonError("Invalid \\escape", next, depth)
            ELSE IF next + 6 >= Len(s)
                    \/ \E k \in (next + 2)..(next + 5) : ~IsHex(Ch(s, k + 1))
            THEN JsonError("Invalid \\uXXXX escape", next + 1, depth)
            ELSE JsonString(s, begin, next + 6, depth)
        First(stops) ==
            LET At(next) == Stop(next, Ch(s, next + 1), Ch(s, next + 2))
            IN  IF stops = {}
                THEN JsonError("Unterminated string starting at", begin, depth)
                ELSE At(CHOOSE j \in stops : \A k \in stops : j <= k)
    IN  First({j \in end..(Len(s) - 1) :
                  Ch(s, j + 1) \in {"\"", "\\"} \/ Ord(Ch(s, j + 1)) <= 31})

\* scan_once: the JSON term that starts at place i.  The "[" or "{" that
\* opens a 995th array or object raises RecursionError.  A number without
\* fraction or exponent is converted by int(), which raises ValueError on more
\* than 4300 digits.  NaN, Infinity and -Infinity are looked up by a call,
\* which the recursion limit stops inside 994 arrays and objects.
RECURSIVE JsonValue(_, _, _)
RECURSIVE JsonArray(_, _, _)
RECURSIVE JsonObject(_, _, _)
JsonValue(s, i, depth) ==
    LET Word(w) == i + Len(w) <= Len(s) /\ SubSeq(s, i + 1, i + Len(w)) = w
        Raise(type, msg) ==
            [ok |-> FALSE, end |-> 0, msg |-> msg, pos |-> 0, type |-> type]
        TooDeep(where) == Raise("RecursionError", "maximum recursion depth exceeded" \o where)
        Constant(end) ==
            IF depth >= 994 THEN TooDeep(" while calling a Python object")
            ELSE JsonScan(end, "", 0)
        Converted(digits, whole, n) ==
            IF n.end = whole /\ digits > 4300
            THEN Raise("ValueError",
                       "Exceeds the limit (4300 digits) for integer string conversion: "
                           \o "value has " \o NatStr(digits)
                           \o " digits; use sys.set_int_max_str_digits() to increase the limit")
            ELSE n
        \* the number pattern: sign, integer part up to frac, fraction up to
        \* exp, and an exponent whose digits start at digits
        Exponent(exp, digits) ==
            IF Ch(s, exp + 1) \in {"e", "E"} /\ exp + 1 < Len(s)
                /\ DigitRun(s, digits + 1) > 0
            THEN JsonScan(digits + DigitRun(s, digits + 1), "", 0)
            ELSE JsonScan(exp, "", 0)
        Fraction(exp) ==
            Exponent(exp, IF exp + 2 < Len(s) /\ Ch(s, exp + 2) \in {"+", "-"}
                          THEN exp + 2 ELSE exp + 1)
        Integer(int, frac) ==
            IF frac = int THEN JsonScan(0, "Expecting value", i)
            ELSE Converted(frac - int, frac,
                           Fraction(IF Ch(s, frac + 1) = "." /\ IsDigit(Ch(s, frac + 2))
                                    THEN frac + 1 + DigitRun(s, frac + 2) ELSE frac))
        Number(int) ==
            Integer(int, IF Ch(s, int + 1) = "0" THEN int + 1
                         ELSE int + DigitRun(s, int + 1))
        Brace(j) ==
            IF depth >= 994
            THEN TooDeep(" while decoding a JSON object from a unicode string")
            ELSE IF Ch(s, j + 1) = "}" THEN JsonScan(j + 1, "", 0)
            ELSE JsonObject(s, j, depth + 1)
        Bracket(j) ==
            IF depth >= 994
            THEN TooDeep(" while decoding a JSON array from a unicode string")
            ELSE IF Ch(s, j + 1) = "]" THEN JsonScan(j + 1, "", 0)
            ELSE JsonArray(s, j, depth + 1)
    IN  IF i >= Len(s) THEN JsonScan(0, "Expecting value", i)
        ELSE IF Ch(s, i + 1) = "\"" THEN JsonString(s, i, i + 1, depth)
        ELSE IF Ch(s, i + 1) = "{" THEN Brace(JsonWs(s, i + 1))
        ELSE IF Ch(s, i + 1) = "[" THEN Bracket(JsonWs(s, i + 1))
        ELSE IF Word("null") \/ Word("true") THEN JsonScan(i + 4, "", 0)
        ELSE IF Word("false") THEN JsonScan(i + 5, "", 0)
        ELSE IF Word("NaN") THEN Constant(i + 3)
        ELSE IF Word("Infinity") THEN Constant(i + 8)
        ELSE IF Word("-Infinity") THEN Constant(i + 9)
        ELSE Number(IF Ch(s, i + 1) = "-" THEN i + 1 ELSE i)

\* The items of an array inside depth arrays and objects, itself among them,
\* from the place i of an item on, up to the "]"
JsonArray(s, i, depth) ==
    LET Item(v) ==
            LET After(j) ==
                    IF Ch(s, j + 1) = "]" THEN JsonScan(j + 1, "", 0)
                    ELSE IF Ch(s, j + 1) # ","
                    THEN JsonError("Expecting ',' delimiter", j, depth)
                    ELSE JsonArray(s, JsonWs(s, j + 1), depth)
            IN  IF v.ok THEN After(JsonWs(s, v.end)) ELSE v
    IN  Item(JsonValue(s, i, depth))

\* The members of an object inside depth arrays and objects, itself among
\* them, from the place i of a key on, up to the "}"
JsonObject(s, i, depth) ==
    LET Member(k) ==
            LET Value(v) ==
                    LET After(j) ==
                            IF Ch(s, j + 1) = "}" THEN JsonScan(j + 1, "", 0)
                            ELSE IF Ch(s, j + 1) # ","
                            THEN JsonError("Expecting ',' delimiter", j, depth)
                            ELSE JsonObject(s, JsonWs(s, j + 1), depth)
                    IN  IF v.ok THEN After(JsonWs(s, v.end)) ELSE v
                Colon(j) ==
                    IF Ch(s, j + 1) # ":"
                    THEN JsonError("Expecting ':' delimiter", j, depth)
                    ELSE Value(JsonValue(s, JsonWs(s, j + 1), depth))
            IN  IF k.ok THEN Colon(JsonWs(s, k.end)) ELSE k
    IN  IF Ch(s, i + 1) # "\""
        THEN JsonError("Expecting property name enclosed in double quotes", i, depth)
        ELSE Member(JsonString(s, i, i + 1, depth))

\* The text a file read in text mode gives: "\r\n" and "\r" become "\n"
RECURSIVE UniversalNewlines(_, _, _)
UniversalNewlines(s, lo, hi) ==
    IF lo > hi THEN ""
    ELSE IF lo = hi
    THEN (IF Ch(s, lo) = "\r" THEN "\n"
          ELSE IF Ch(s, lo) = "\n" /\ Ch(s, lo - 1) = "\r" THEN ""
          ELSE Ch(s, lo))
    ELSE UniversalNewlines(s, lo, (lo + hi) \div 2)
         \o UniversalNewlines(s, (lo + hi) \div 2 + 1, hi)

\* The exception json.load raises on the text s, none when s is a document
\* it decodes: one term, white space around it and nothing after.  The
\* message of a JSONDecodeError names the line, the column and the place.
JsonLoad(s) ==
    LET Message(msg, pos) ==
            LET breaks == {k \in 1..pos : Ch(s, k) = "\n"}
                col == pos + 1 - (IF breaks = {} THEN 0
                                  ELSE CHOOSE k \in breaks : \A j \in breaks : j <= k)
            IN  Exc("JSONDecodeError",
                    msg \o ": line " \o NatStr(Cardinality(breaks) + 1)
                        \o " column " \o NatStr(col) \o " (char " \o NatStr(pos) \o ")",
                    "json.load")
        Ended(v) ==
            IF v.type \notin {"none", "JSONDecodeError"} THEN Exc(v.type, v.msg, "json.load")
            ELSE IF ~v.ok THEN Message(v.msg, v.pos)
            ELSE IF JsonWs(s, v.end) # Len(s) THEN Message("Extra data", JsonWs(s, v.end))
            ELSE NoExc
    IN  Ended(JsonValue(s, JsonWs(s, 0), 0))

\* ---------------------------------------------------------------- elements
\* Paragraph(text, style): the text is held as the value the code hands over
Paragraph(text, style) == [kind |-> "Paragraph", text |-> S(text), style |-> style]
Spacer == [kind |-> "Spacer"]
Table(cells) == [kind |-> "Table", cells |-> cells]
Image(bytes) == [kind |-> "Image", bytes |-> bytes]

\* The clock reading datetime.now() returns during the run.
Now == [ok |-> TRUE, year |-> 2024, month |-> 6, day |-> 3, hour |-> 14, minute |-> 7]
\* datetime.now().strftime('%B %d, %Y')
NowDate == MonthNames[Now.month] \o " " \o PadLeft(NatStr(Now.day), 2) \o ", " \o NatStr(Now.year)

\* A stage of a renderer ends with the elements it appended and, if a
\* statement of it raised, the exception.
Done(els) == [exc |-> NoExc, els |-> els]
Raised(e, els) == [exc |-> e, els |-> els]

\* data.get(...) on a parsed document that is no object: json.load gave a
\* list, a string, a number or None, and type names it
NotADict(type, at) ==
    Exc("AttributeError", "'" \o type \o "' object has no attribute 'get'", at)

\* ------------------------------------- generate_signed_agreement, by section
\* lines 15-67: document template, styles, title block, agreement subtitle.
\* The title is given to Paragraph as it is, whatever its type (line 66), and
\* Paragraph splits its text into lines when it is constructed: a title that
\* is no string raises there.
AgrTitle(type, d) ==
    LET head == <<Paragraph("INVESTMENT AGREEMENT", "CustomTitle"), Spacer>>
        title == Get(d, "title", S("Investment Agreement"))
    IN  IF type # "dict" THEN Raised(NotADict(type, "title"), head)
        ELSE IF title.t # "str" THEN Raised(NoAttr(title, "split", "title"), head)
        ELSE Done(head \o <<Paragraph(title.s, "CustomHeading"), Spacer>>)

\* line 72: f"${data.get('investmentAmount', 0):,.2f}"
AmountCell(d) ==
    LET v == Get(d, "investmentAmount", N(0))
    IN  CASE v.t = "num" -> [exc |-> NoExc, s |-> "$" \o Fixed(FromInt(v.n), 2, TRUE)]
          [] v.t = "str" ->
                [exc |-> Exc("ValueError",
                             "Unknown format code 'f' for object of type 'str'",
                             "investmentAmount"),
                 s |-> ""]
          [] OTHER ->
                [exc |-> Exc("TypeError",
                             "unsupported format string passed to "
                                \o TypeName(v) \o ".__format__",
                             "investmentAmount"),
                 s |-> ""]

\* lines 69-85: the investor-info table
AgrInfo(d) ==
    LET amt == AmountCell(d)
    IN  IF amt.exc.type # "none" THEN Raised(amt.exc, <<>>)
        ELSE Done(<<Table(<<
                      <<S("Investor Name:"), Get(d, "investorName", S("N/A"))>>,
                      <<S("Email:"), Get(d, "investorEmail", S("N/A"))>>,
                      <<S("Investment Amount:"), S(amt.s)>>,
                      <<S("Agreement Date:"), S(NowDate)>> >>),
                    Spacer>>)

\* lines 91-93: one paragraph per line of content that is not blank
RECURSIVE TermParagraphs(_)
TermParagraphs(lines) ==
    IF Len(lines) = 0 THEN <<>>
    ELSE (IF Len(Strip(lines[1])) > 0
          THEN <<Paragraph(Strip(lines[1]), "CustomBody")>> ELSE <<>>)
         \o TermParagraphs(Tail(lines))

\* lines 87-95: "Terms and Conditions"
AgrTerms(d) ==
    LET head == <<Paragraph("Terms and Conditions", "CustomHeading")>>
        content == Get(d, "content", S(""))
    IN  IF content.t # "str" THEN Raised(NoAttr(content, "split", "content"), head)
        ELSE Done(head \o TermParagraphs(Split(content.s, "\n")) \o <<Spacer>>)

\* lines 97-106: the acknowledgment
AgrAck(d) ==
    Done(<<Paragraph("Acknowledgment", "CustomHeading"),
           Paragraph("I, " \o PyStr(Get(d, "investorName", S("the undersigned")))
                     \o ", acknowledge that I have read, understood, "
                     \o "and agree to be bound by all terms and conditions set forth in this Investment Agreement. "
                     \o "I confirm that I am investing the amount specified above of my own free will and understand "
                     \o "the risks involved with this investment.",
                     "LegalText"),
           Spacer>>)

\* lines 113-116, the body of the try: split at the first comma, decode, and
\* construct the image, which identifies the format of the bytes
SignatureImage(text) ==
    LET parts == Split1(text, ",")
        dec == b64decode(parts[2])
    IN  IF Len(parts) < 2
        THEN [exc |-> Exc("ValueError",
                          "not enough values to unpack (expected 2, got 1)",
                          "signatureData"),
              el |-> Spacer]
        ELSE IF ~dec.ok
        THEN [exc |-> Exc(dec.type, dec.err, "signatureData"), el |-> Spacer]
        ELSE IF ~ImageIdentified(dec.bytes)
        THEN [exc |-> Exc("UnidentifiedImageError", "cannot identify image file",
                          "signatureData"),
              el |-> Spacer]
        ELSE [exc |-> NoExc, el |-> Image(dec.bytes)]

\* lines 110-120: the signature element.  The handler of line 117 takes every
\* exception of the try; the test of line 111 stands before the try.
SignatureElement(d) ==
    LET signature_data == Get(d, "signatureData", S(""))
        img == SignatureImage(signature_data.s)
    IN  IF ~Truthy(signature_data)
        THEN [exc |-> NoExc, el |-> Paragraph("[No signature provided]", "CustomBody")]
        ELSE IF signature_data.t # "str"
        THEN [exc |-> NoAttr(signature_data, "startswith", "signatureData"), el |-> Spacer]
        ELSE IF ~StartsWith(signature_data.s, "data:image/")
        THEN [exc |-> NoExc, el |-> Paragraph("[No signature provided]", "CustomBody")]
        ELSE IF img.exc.type = "none" THEN img
        ELSE [exc |-> NoExc,
              el |-> Paragraph("[Signature could not be rendered]", "CustomBody")]

\* lines 108-122: "Digital Signature"
AgrSignature(d) ==
    LET head == <<Paragraph("Digital Signature", "CustomHeading")>>
        sig == SignatureElement(d)
    IN  IF sig.exc.type # "none" THEN Raised(sig.exc, head)
        ELSE Done(head \o <<sig.el, Spacer>>)

\* The fallback gives the string the parser was handed
FormattedDateReplaced(signed_date) ==
    LET Formatted(replaced, dt) == IF dt.ok THEN S(strftime(dt)) ELSE S(replaced)
        Parsed(replaced) == Formatted(replaced, fromisoformat(replaced))
    IN  IF signed_date.t # "str" THEN signed_date
        ELSE Parsed(Replace(signed_date.s, "Z", "+00:00"))

\* lines 125-129: formatted_date.  The bare except also takes the
\* AttributeError of a signed_date that is no string.
FormattedDate(signed_date) ==
    LET Formatted(dt) == IF dt.ok THEN S(strftime(dt)) ELSE signed_date
    IN  IF signed_date.t # "str" THEN signed_date
        ELSE Formatted(fromisoformat(Replace(signed_date.s, "Z", "+00:00")))

\* lines 124-153: the signing-metadata table and the closing disclaimer
AgrSigned(d) ==
    Done(<<Table(<<
             <<S("Signed by:"), Get(d, "investorName", S("N/A"))>>,
             <<S("Date Signed:"),
               FormattedDate(Get(d, "signedDate", S("2024-06-03T14:07:09.250000")))>>,
             <<S("IP Address:"), S("Recorded on server")>> >>),
           Spacer,
           Paragraph("This document was electronically signed and is legally binding. "
                     \o "A copy has been stored securely for your records.",
                     "LegalText")>>)

\* -------------------------------------------- generate_statement, by section
\* lines 14-46: template, styles, brand title, subtitle, the header grid
StmtHeader(type, d) ==
    LET head == <<Paragraph("InvestorHub", "Title"),
                  Paragraph("Monthly Investment Statement", "Heading2"),
                  Spacer>>
    IN  IF type # "dict" THEN Raised(NotADict(type, "investorName"), head)
        ELSE Done(head \o
                  <<Table(<<
                      <<S("Investor:"), Get(d, "investorName", S("Investor")),
                        S("Statement Period:"),
                        Get(d, "month", S(MonthNames[Now.month] \o " " \o NatStr(Now.year)))>>,
                      <<S("Email:"), Get(d, "investorEmail", S("")),
                        S("Generated:"), S(NowDate)>> >>),
                    Spacer>>)

\* lines 50-54: the five coercions, in source order; the first that raises
\* ends the stage
RECURSIVE FirstFloatError(_, _)
FirstFloatError(d, keys) ==
    IF Len(keys) = 0 THEN NoExc
    ELSE LET Rest(r) == IF r.exc.type # "none" THEN r.exc
                         ELSE FirstFloatError(d, Tail(keys))
         IN  Rest(Float(Get(d, keys[1], N(0)), keys[1]))

Money(d, k) == Float(Get(d, k, N(0)), k).x

\* lines 48-81: "Account Summary"
StmtSummary(d) ==
    LET head == <<Paragraph("Account Summary", "Heading")>>
        Filled(e, table) == IF e.type # "none" THEN Raised(e, head)
                            ELSE Done(head \o <<table, Spacer>>)
    IN  Filled(FirstFloatError(d, <<"openingBalance", "returns", "payouts",
                                    "closingBalance", "roi">>),
               Table(<<
                   <<S("Description"), S("Amount")>>,
                   <<S("Opening Balance"), S(format_currency(Money(d, "openingBalance")))>>,
                   <<S("Investment Returns"), S(format_currency(Money(d, "returns")))>>,
                   <<S("Payouts Received"),
                     S("(" \o format_currency(Money(d, "payouts")) \o ")")>>,
                   <<S("Closing Balance"), S(format_currency(Money(d, "closingBalance")))>> >>))

\* lines 89-94: one row of the investments table
InvestmentRow(inv) ==
    LET Row(amount, roi) ==
            IF amount.exc.type # "none" THEN [exc |-> amount.exc, row |-> <<>>]
            ELSE IF roi.exc.type # "none" THEN [exc |-> roi.exc, row |-> <<>>]
            ELSE [exc |-> NoExc,
                  row |-> <<Get(inv, "description", S("Investment")),
                            Get(inv, "startDate", S("-")),
                            S(format_currency(amount.x)),
                            S(Fixed(roi.x, 1, FALSE) \o "%")>>]
    IN  Row(Float(Get(inv, "amount", N(0)), "investments.amount"),
            Float(Get(inv, "roi", N(0)), "investments.roi"))

\* lines 88-94: the loop; rows so far are lost with the first exception
RECURSIVE InvestmentRows(_, _)
InvestmentRows(rows, acc) ==
    IF Len(rows) = 0 THEN [exc |-> NoExc, cells |-> acc]
    ELSE LET Added(r) ==
                 IF r.exc.type # "none" THEN [exc |-> r.exc, cells |-> acc]
                 ELSE InvestmentRows(Tail(rows), Append(acc, r.row))
         IN  Added(InvestmentRow(rows[1]))

\* "for x in v" over a truthy value that is no list
NotIterable(v, at) ==
    IF v.t = "str" THEN Exc("AttributeError", "'str' object has no attribute 'get'", at)
    ELSE Exc("TypeError", "'" \o TypeName(v) \o "' object is not iterable", at)

\* lines 83-112: "Investment Details"
StmtInvestments(d) ==
    LET head == <<Paragraph("Investment Details", "Heading")>>
        investments == Get(d, "investments", L(<<>>))
        Filled(rs) ==
            IF rs.exc.type # "none" THEN Raised(rs.exc, head)
            ELSE Done(head \o <<Table(rs.cells), Spacer>>)
    IN  IF ~Truthy(investments)
        THEN Done(head \o <<Paragraph("No active investments for this period.", "Normal"),
                            Spacer>>)
        ELSE IF investments.t # "list"
        THEN Raised(NotIterable(investments, "investments"), head)
        ELSE Filled(InvestmentRows(investments.rows,
                                   <<<<S("Description"), S("Start Date"), S("Amount"),
                                       S("ROI")>>>>))

\* line 123: p.get('status', '-').capitalize()
StatusCell(p) ==
    LET status == Get(p, "status", S("-"))
    IN  IF status.t # "str"
        THEN [exc |-> NoAttr(status, "capitalize", "payoutList.status"), s |-> ""]
        ELSE [exc |-> NoExc, s |-> Capitalize(status.s)]

\* lines 120-124: one row of the payout table
PayoutRow(p) ==
    LET Row(amount, status) ==
            IF amount.exc.type # "none" THEN [exc |-> amount.exc, row |-> <<>>]
            ELSE IF status.exc.type # "none" THEN [exc |-> status.exc, row |-> <<>>]
            ELSE [exc |-> NoExc,
                  row |-> <<Get(p, "month", S("-")),
                            S(format_currency(amount.x)),
                            S(status.s)>>]
    IN  Row(Float(Get(p, "amount", N(0)), "payoutList.amount"), StatusCell(p))

RECURSIVE PayoutRows(_, _)
PayoutRows(rows, acc) ==
    IF Len(rows) = 0 THEN [exc |-> NoExc, cells |-> acc]
    ELSE LET Added(r) ==
                 IF r.exc.type # "none" THEN [exc |-> r.exc, cells |-> acc]
                 ELSE PayoutRows(Tail(rows), Append(acc, r.row))
         IN  Added(PayoutRow(rows[1]))

\* lines 114-147: "Payout History" and the footer
StmtPayouts(d) ==
    LET head == <<Paragraph("Payout History", "Heading")>>
        payout_list == Get(d, "payoutList", L(<<>>))
        foot == <<Spacer,
                  Paragraph("This statement is for informational purposes only.", "Footer"),
                  Paragraph("Generated by InvestorHub on " \o NowDate, "Footer")>>
        Filled(rs) ==
            IF rs.exc.type # "none" THEN Raised(rs.exc, head)
            ELSE Done(head \o <<Table(rs.cells)>> \o foot)
    IN  IF ~Truthy(payout_list)
        THEN Done(head \o <<Paragraph("No payouts recorded for this period.", "Normal")>>
                  \o foot)
        ELSE IF payout_list.t # "list"
        THEN Raised(NotIterable(payout_list, "payoutList"), head)
        ELSE Filled(PayoutRows(payout_list.rows,
                               <<<<S("Month"), S("Amount"), S("Status")>>>>))

\* ------------------------------------------------------------------ inputs
InputPath == "in.json"
OutputPath == "out/document.pdf"

AgrKeys == {"title", "investorName", "investorEmail", "investmentAmount",
            "content", "signatureData", "signedDate"}

AgrSample ==
    [title |-> S("Series A Agreement"),
     investorName |-> S("Ann Lee"),
     investorEmail |-> S("ann@example.com"),
     investmentAmount |-> N(25000),
     content |-> S("First term.\n\n  Second term.  \n"),
     signatureData |-> S("data:image/png;base64," \o PngB64),
     signedDate |-> S("2024-03-15T10:30:00Z")]

\* Among them the PNG cut after its IHDR chunk (33 bytes, 44 digits), which
\* the image library does not identify, and cut inside its IDAT chunk (45
\* bytes, 60 digits), which it identifies and cannot decode
SignatureValues ==
    {Absent, Null, N(0), N(5), S(""), S("hello"),
     S("data:text/plain;base64," \o PngB64),
     S("data:image/png;base64"),
     S("data:image/png;base64,"),
     S("data:image/png;base64,!!!not-base64!!!"),
     S("data:image/png;base64,aGVsbG8"),
     S("data:image/png;base64,aGVsbG8="),
     S("data:image/png;base64," \o SubSeq(PngB64, 1, 44)),
     S("data:image/png;base64," \o SubSeq(PngB64, 1, 60)),
     S("data:image/png;base64," \o PngB64)}

SignedDateStrings ==
    {"2024-03-15T10:30:00Z", "not-a-date", "", "2024-03-15", "2024-03-15T00:05:00",
     "2024-03-15T12:00", "2024-03-15T13:45:59+05:30", "2024-12-01T23:59:00Z",
     "2024-03-15 10:30:00", "2024-03-15T10:30:00.123456Z", "2024-02-29",
     "2023-02-29", "2024-13-15T10:30:00Z", "2024-03-15T24:00:00",
     "2024-03-15T10:30:00ZZ", "2024-03-15Z10:30:00", "2024-03-15T09:07:00-08:00",
     "15/03/2024", "2024-03-15T10:30:00+05:30:15", "2024-03-15T10:30:00.1Z",
     "20240315", "2024-W11-5", "2024-03-15T10:30:00+05:60", "2024-03-15T1030",
     "2024-03-15T22:15:00+0530", "2024-03-15T10:30:00+24:00", "2024-075"}

AgrDomain(k) ==
    CASE k = "title" -> {Absent, Null, N(5), S("Series A Agreement"), S("")}
      [] k = "investorName" ->
            {Absent, Null, S("Ann Lee"), L(<<>>),
             L(<<[amount |-> N(1), month |-> S("m"), status |-> Absent,
                  order |-> <<"amount", "month">>]>>)}
      [] k = "investorEmail" -> {Absent, Null, S("ann@example.com")}
      [] k = "investmentAmount" -> {Absent, Null, N(0), N(25000), N(1234567), S("5000")}
      [] k = "content" -> {Absent, Null, N(7), S(""), S("One line"),
                           S("First term.\n\n  Second term.  \n"),
                           S("a\n" \o Chr(11) \o "b" \o Chr(11) \o "\n "
                                \o Chr(31) \o " \nc")}
      [] k = "signatureData" -> SignatureValues
      [] k = "signedDate" -> {Absent, Null, N(1710498600)} \cup {S(x) : x \in SignedDateStrings}

\* Every subset of the keys absent, the others at their sample value
AbsenceFamily(keys, sample) ==
    {[k \in keys |-> IF k \in A THEN Absent ELSE sample[k]] : A \in SUBSET keys}

AgrInputs ==
    AbsenceFamily(AgrKeys, AgrSample)
    \cup UNION {{[AgrSample EXCEPT ![k] = v] : v \in AgrDomain(k)} : k \in AgrKeys}

SeqsUpTo(set, n) == UNION {[1..k -> set] : k \in 0..n}

\* The lists of up to n rows: rows with any keys absent, or sample rows with
\* one odd row among them
RowLists(keys, sample, odd, n) ==
    SeqsUpTo({[k \in DOMAIN sample |->
                  IF k = "order" THEN SelectSeq(sample.order, LAMBDA x : x \notin A)
                  ELSE IF k \in A THEN Absent ELSE sample[k]] : A \in SUBSET keys}, n)
    \cup {[i \in 1..k |-> IF i = j THEN o ELSE sample] :
              k \in 1..n, j \in 1..n, o \in odd}

InvKeys == {"description", "startDate", "amount", "roi"}
InvSample == [description |-> S("Fund A"), startDate |-> S("2024-01-01"),
              amount |-> N(1000), roi |-> N(5),
              order |-> <<"description", "startDate", "amount", "roi">>]

PayKeys == {"month", "amount", "status"}
PaySample == [month |-> S("March 2024"), amount |-> N(150), status |-> S("pending"),
              order |-> <<"month", "amount", "status">>]
StatusStrings == {"pending", "PAID", "pAiD", "", "-", "1st", "on hold"}

StmtKeys == {"investorName", "investorEmail", "month", "openingBalance", "returns",
             "payouts", "closingBalance", "roi", "investments", "payoutList"}

StmtSample ==
    [investorName |-> S("Ann Lee"),
     investorEmail |-> S("ann@example.com"),
     month |-> S("March 2024"),
     openingBalance |-> N(10000),
     returns |-> N(500),
     payouts |-> N(150),
     closingBalance |-> N(10350),
     roi |-> N(5),
     investments |-> L(<<InvSample>>),
     payoutList |-> L(<<PaySample>>)]

MoneyValues == {Absent, Null, N(0), N(1234567), S("2500"), S("abc"), S(""),
                S("-5"), S("1e3"), S(" 12.345\n"), S("2.675"), S("1_000.5"), S("-inf"),
                S("it's"), S("1797693134862315807937e287"),
                S("24703282292062327208829e-346")}

StmtDomain(k) ==
    CASE k \in {"investorName", "investorEmail", "month"} -> {Absent, Null, S("Ann Lee")}
      [] k \in {"openingBalance", "returns", "payouts", "closingBalance", "roi"} ->
            MoneyValues
      [] k = "investments" ->
            {Absent, Null, N(3)}
                \cup {L(r) : r \in RowLists(InvKeys, InvSample,
                    {[InvSample EXCEPT !.amount = v] : v \in {S("abc"), S("250"), Null}}
                    \cup {[InvSample EXCEPT !.roi = v] :
                              v \in {S("high"), S("7.25"), S("7.35"), Null}}
                    \cup {[InvSample EXCEPT
                              !.order = <<"roi", "description", "amount", "startDate">>]},
                    MaxRows)}
      [] k = "payoutList" ->
            {Absent, Null, S("none")}
                \cup {L(r) : r \in RowLists(PayKeys, PaySample,
                    {[PaySample EXCEPT !.amount = v] : v \in {S("abc"), Null}}
                    \cup {[PaySample EXCEPT !.status = v] :
                              v \in {Null} \cup {S(x) : x \in StatusStrings}}
                    \cup {[PaySample EXCEPT !.order = <<"status", "month", "amount">>]},
                    MaxRows)}

StmtInputs ==
    AbsenceFamily(StmtKeys, StmtSample)
    \cup UNION {{[StmtSample EXCEPT ![k] = v] : v \in StmtDomain(k)} : k \in StmtKeys}

\* Texts of an input file that are no JSON document
MalformedTexts ==
    {"", "not json", "{", "{\"title\": }", "{\"title\" \"x\"}", "{\"a\": 1,}",
     "{title: 1}", "[1, 2", "[1 2]", "{\"a\": \"x", "{\"a\": \"x\\q\"}",
     "{\"a\": \"\\u12G4\"}", "{\"a\": \"x\ty\"}", "{\"a\": 1}\r\n{\"b\": 2}",
     "{\n  \"a\": 01\n}", "{\"a\": -}", "nul", "{\"a\": 1.}"}

\* The file at input_path: missing, a directory, unreadable, bytes that are
\* no UTF-8, a text that is no JSON, a JSON text the decoder refuses, a JSON
\* document v that is no object, or the JSON object of fields f
InputFile(status, text, v, f) == [status |-> status, text |-> text, v |-> v, f |-> f]

\* Nothing has run yet
Started ==
    /\ pc = "start"
    /\ data = [set |-> FALSE, type |-> "", f |-> <<>>]
    /\ elements = <<>>
    /\ exc = NoExc
    /\ stdout = <<>>
    /\ stderr = <<>>
    /\ exitCode = -1
    /\ inputRead = FALSE
    /\ returned = FALSE

\* A run starts with the command line and the file system as they are.  Either
\* the environment varies over every case with the sample object in the input
\* file, or the object varies over the inputs with exactly two arguments.  The
\* text the decoder refuses is a whole number of 4301 digits.
Init ==
    /\ cmd \in {"agreement", "statement"}
    /\ \/ /\ argc \in 0..MaxArgc
          /\ \/ \E st \in {"missing", "directory", "denied", "undecodable"} :
                    input = InputFile(st, "", Null, <<>>)
             \/ \E t \in MalformedTexts : input = InputFile("malformed", t, Null, <<>>)
             \/ LET ten == "1234567890"
                    hundred == ten \o ten \o ten \o ten \o ten
                                   \o ten \o ten \o ten \o ten \o ten
                    thousand == hundred \o hundred \o hundred \o hundred \o hundred
                                    \o hundred \o hundred \o hundred \o hundred \o hundred
                IN  input = InputFile("refused",
                                      thousand \o thousand \o thousand \o thousand
                                          \o hundred \o hundred \o hundred \o "1\n",
                                      Null, <<>>)
             \/ \E v \in {Null, N(5), S("text"), S(""), L(<<>>)} :
                    input = InputFile("scalar", "", v, <<>>)
             \/ input = InputFile("object", "", Null,
                                  IF cmd = "agreement" THEN AgrSample ELSE StmtSample)
          /\ outDir \in {"ok", "nodir", "denied"}
          /\ outFile \in {"none", "old"}
       \/ /\ argc = 2
          /\ \E f \in (IF cmd = "agreement" THEN AgrInputs ELSE StmtInputs) :
                input = InputFile("object", "", Null, f)
          /\ outDir \in {"ok", "nodir"}
          /\ outFile = "none"
    /\ Started

\* ----------------------------------------------------------------- actions
Env == <<cmd, argc, input, outDir>>

\* A renderer section: its elements are appended; an exception leaves the
\* renderer for the handlers of __main__.
Section(res, next) ==
    /\ elements' = elements \o res.els
    /\ IF res.exc.type = "none"
       THEN pc' = next /\ exc' = exc
       ELSE pc' = "except" /\ exc' = res.exc
    /\ UNCHANGED <<Env, outFile, data, stdout, stderr, exitCode, inputRead, returned>>

Exit(code) == pc' = "exited" /\ exitCode' = code

\* with open(input_path, 'r') as f: data = json.load(f).  The open raises
\* for a path that is missing, a directory or unreadable; the read decodes
\* the bytes as UTF-8 and raises on the first that is none (here a file that
\* starts with the byte FF); the decoder raises on a text that is no JSON,
\* and on a JSON text with an integer too long or arrays and objects too deep.
\* What is loaded is the document, of whatever type.
ReadInput(next) ==
    LET OsError(type, errno) ==
            Exc(type, errno \o ": '" \o InputPath \o "'", "open(input_path)")
        Ends(raised) ==
            /\ inputRead' = TRUE
            /\ exc' = IF raised.type # "none" THEN raised ELSE exc
            /\ pc' = IF raised.type # "none" THEN "except" ELSE next
            /\ data' = IF raised.type # "none" THEN data
                       ELSE [set |-> TRUE,
                             type |-> IF input.status = "object" THEN "dict"
                                      ELSE TypeName(input.v),
                             f |-> input.f]
            /\ UNCHANGED <<Env, outFile, elements, stdout, stderr, exitCode, returned>>
    IN  Ends(CASE input.status = "missing" ->
                    OsError("FileNotFoundError", "[Errno 2] No such file or directory")
               [] input.status = "directory" ->
                    OsError("IsADirectoryError", "[Errno 21] Is a directory")
               [] input.status = "denied" ->
                    OsError("PermissionError", "[Errno 13] Permission denied")
               [] input.status = "undecodable" ->
                    Exc("UnicodeDecodeError",
                        "'utf-8' codec can't decode byte 0xff in position 0: invalid start byte",
                        "json.load")
               [] input.status \in {"malformed", "refused"} ->
                    JsonLoad(UniversalNewlines(input.text, 1, Len(input.text)))
               [] OTHER -> NoExc)

\* doc.build(elements), line 155: the elements are laid out and drawn on the
\* pages in order, and then the file at the output path is opened for writing
\* and the document written.  The renderer returns after it.  A table takes a
\* list in a cell for a list of flowables and calls wrapOn of each, which a
\* dict has not; an image is decoded when it is drawn, and the image library
\* raises OSError on data that stops short (the model keeps the head of its
\* message, which goes on with the reader's address).
Build ==
    LET ListCell(e) ==
            \E r \in 1..Len(e.cells) : \E c \in 1..Len(e.cells[r]) :
                e.cells[r][c].t = "list" /\ Len(e.cells[r][c].rows) > 0
        Fails(e) ==
            CASE e.kind = "Table" -> ListCell(e)
              [] e.kind = "Image" -> ~ImageDecodes(e.bytes)
              [] OTHER -> FALSE
        First(failing) == elements[CHOOSE i \in failing : \A j \in failing : i <= j]
        Drawn(failing) ==
            IF failing # {}
            THEN IF First(failing).kind = "Table"
                 THEN Exc("AttributeError", "'dict' object has no attribute 'wrapOn'",
                          "doc.build")
                 ELSE Exc("OSError", "image file is truncated", "doc.build")
            ELSE CASE outDir = "ok" -> NoExc
                   [] outDir = "nodir" ->
                        Exc("FileNotFoundError",
                            "[Errno 2] No such file or directory: '" \o OutputPath \o "'",
                            "doc.build")
                   [] OTHER ->
                        Exc("PermissionError",
                            "[Errno 13] Permission denied: '" \o OutputPath \o "'",
                            "doc.build")
        Ends(raised) ==
            /\ exc' = IF raised.type # "none" THEN raised ELSE exc
            /\ pc' = IF raised.type # "none" THEN "except" ELSE "print"
            /\ outFile' = IF raised.type # "none" THEN outFile ELSE "new"
            /\ returned' = IF raised.type # "none" THEN returned ELSE TRUE
            /\ UNCHANGED <<Env, data, elements, stdout, stderr, exitCode, inputRead>>
    IN  Ends(Drawn({i \in 1..Len(elements) : Fails(elements[i])}))

\* ---- generate_signed_agreement.py
\* lines 158-160
AgrCheckArgs ==
    /\ cmd = "agreement" /\ pc = "start"
    /\ IF argc + 1 # 3
       THEN /\ stdout' = Append(stdout,
                  "Usage: generate_signed_agreement.py '<input_json_path>' '<output_path>'")
            /\ Exit(1)
       ELSE /\ pc' = "read"
            /\ UNCHANGED <<stdout, exitCode>>
    /\ UNCHANGED <<Env, outFile, data, elements, exc, stderr, inputRead, returned>>

\* lines 163-167
AgrReadInput == cmd = "agreement" /\ pc = "read" /\ ReadInput("title")

\* The document template opens its file when it is constructed
AgrRenderTitleOpensFile ==
    /\ cmd = "agreement" /\ pc = "title"
    /\ elements' = elements \o AgrTitle(data.type, data.f).els
    /\ outFile' = "new"
    /\ IF AgrTitle(data.type, data.f).exc.type = "none"
       THEN pc' = "info" /\ exc' = exc
       ELSE pc' = "except" /\ exc' = AgrTitle(data.type, data.f).exc
    /\ UNCHANGED <<Env, data, stdout, stderr, exitCode, inputRead, returned>>

AgrRenderTitle ==
    cmd = "agreement" /\ pc = "title" /\ Section(AgrTitle(data.type, data.f), "info")

AgrRenderInfo == cmd = "agreement" /\ pc = "info" /\ Section(AgrInfo(data.f), "terms")

AgrRenderTerms == cmd = "agreement" /\ pc = "terms" /\ Section(AgrTerms(data.f), "ack")

AgrRenderAck == cmd = "agreement" /\ pc = "ack" /\ Section(AgrAck(data.f), "signature")

AgrRenderSignature ==
    cmd = "agreement" /\ pc = "signature" /\ Section(AgrSignature(data.f), "signed")

AgrRenderSigned == cmd = "agreement" /\ pc = "signed" /\ Section(AgrSigned(data.f), "build")

\* line 155
AgrBuild == cmd = "agreement" /\ pc = "build" /\ Build

\* line 170, and the end of the script
AgrPrintSuccess ==
    /\ cmd = "agreement" /\ pc = "print"
    /\ stdout' = Append(stdout, "Signed agreement generated: " \o OutputPath)
    /\ Exit(0)
    /\ UNCHANGED <<Env, outFile, data, elements, exc, stderr, inputRead, returned>>

\* lines 171-179: the first except clause that matches
AgrHandleException ==
    /\ cmd = "agreement" /\ pc = "except"
    /\ stdout' = Append(stdout,
            CASE exc.type = "JSONDecodeError" -> "JSON parse error: " \o exc.msg
              [] exc.type = "FileNotFoundError" -> "Input file not found: " \o exc.msg
              [] OTHER -> "Error: " \o exc.msg)
    /\ Exit(1)
    /\ UNCHANGED <<Env, outFile, data, elements, exc, stderr, inputRead, returned>>

\* ---- generate_statement.py
\* json.dumps of an object of one boolean and one string
JsonResult(ok, key, value) ==
    "{\"success\": " \o (IF ok THEN "true" ELSE "false")
        \o ", \"" \o key \o "\": \"" \o JsonEscape(value) \o "\"}"

\* lines 153-155
StmtCheckArgs ==
    /\ cmd = "statement" /\ pc = "start"
    /\ IF argc + 1 < 3
       THEN /\ stderr' = Append(stderr,
                  "Usage: python generate_statement.py <input_json_path> <output_path>")
            /\ Exit(1)
       ELSE /\ pc' = "read"
            /\ UNCHANGED <<stderr, exitCode>>
    /\ UNCHANGED <<Env, outFile, data, elements, exc, stdout, inputRead, returned>>

\* lines 158-162
StmtReadInput == cmd = "statement" /\ pc = "read" /\ ReadInput("header")

StmtRenderHeader ==
    cmd = "statement" /\ pc = "header" /\ Section(StmtHeader(data.type, data.f), "summary")

StmtRenderSummary ==
    cmd = "statement" /\ pc = "summary" /\ Section(StmtSummary(data.f), "investments")

StmtRenderInvestments ==
    cmd = "statement" /\ pc = "investments" /\ Section(StmtInvestments(data.f), "payouts")

StmtRenderPayouts ==
    cmd = "statement" /\ pc = "payouts" /\ Section(StmtPayouts(data.f), "build")

\* lines 149-150
StmtBuild == cmd = "statement" /\ pc = "build" /\ Build

\* line 165, and the end of the script
StmtPrintSuccess ==
    /\ cmd = "statement" /\ pc = "print"
    /\ stdout' = Append(stdout, JsonResult(TRUE, "path", OutputPath))
    /\ Exit(0)
    /\ UNCHANGED <<Env, outFile, data, elements, exc, stderr, inputRead, returned>>

\* The handlers print and the script then runs off its end
StmtHandleExceptionNoExit ==
    /\ cmd = "statement" /\ pc = "except"
    /\ stdout' = Append(stdout,
            JsonResult(FALSE, "error",
                       IF exc.type = "FileNotFoundError"
                       THEN "Input file not found: " \o exc.msg
                       ELSE exc.msg))
    /\ Exit(0)
    /\ UNCHANGED <<Env, outFile, data, elements, exc, stderr, inputRead, returned>>

\* lines 166-171
StmtHandleException ==
    /\ cmd = "statement" /\ pc = "except"
    /\ stdout' = Append(stdout,
            JsonResult(FALSE, "error",
                       IF exc.type = "FileNotFoundError"
                       THEN "Input file not found: " \o exc.msg
                       ELSE exc.msg))
    /\ Exit(1)
    /\ UNCHANGED <<Env, outFile, data, elements, exc, stderr, inputRead, returned>>

Next ==
    \/ AgrCheckArgs \/ AgrReadInput
    \/ AgrRenderTitle \/ AgrRenderInfo \/ AgrRenderTerms \/ AgrRenderAck
    \/ AgrRenderSignature \/ AgrRenderSigned
    \/ AgrBuild \/ AgrPrintSuccess \/ AgrHandleException
    \/ StmtCheckArgs \/ StmtReadInput
    \/ StmtRenderHeader \/ StmtRenderSummary \/ StmtRenderInvestments \/ StmtRenderPayouts
    \/ StmtBuild \/ StmtPrintSuccess \/ StmtHandleException

Spec == Init /\ [][Next]_vars

\* The runs of generate_statement over payout lists of up to MaxRows rows whose
\* status is any of the status words, letters beyond a-z among them, or null,
\* or absent
StatusInit ==
    /\ cmd = "statement" /\ argc = 2
    /\ \E rows \in SeqsUpTo({[PaySample EXCEPT !.status = Absent,
                                               !.order = <<"month", "amount">>],
                              [PaySample EXCEPT !.status = Null]}
                             \cup {[PaySample EXCEPT !.status = S(x)] :
                                      x \in {"pending", "PAID", "on hold", "éLAN",
                                             "çA VA", "µM", "ßA"}},
                             MaxRows) :
            input = InputFile("object", "", Null, [StmtSample EXCEPT !.payoutList = L(rows)])
    /\ outDir \in {"ok", "nodir"}
    /\ outFile = "none"
    /\ Started

StatusNext ==
    \/ StmtCheckArgs \/ StmtReadInput
    \/ StmtRenderHeader \/ StmtRenderSummary \/ StmtRenderInvestments \/ StmtRenderPayouts
    \/ StmtBuild \/ StmtPrintSuccess \/ StmtHandleException

StatusSpec == StatusInit /\ [][StatusNext]_vars

\* ------------------------------------------------------ reading the outcome
IsObject == input.status = "object"

Contains(s, sub) ==
    \E i \in 1..(Len(s) - Len(sub) + 1) : SubSeq(s, i, i + Len(sub) - 1) = sub

\* The renderer reached doc.build
Rendered == pc = "build" \/ returned \/ exc.at = "doc.build"

IsTable(els, i) == els[i].kind = "Table"

\* The cell that follows the label cell in a table of the list
HasLabel(els, label) ==
    \E i \in 1..Len(els) : IsTable(els, i) /\
        \E r \in 1..Len(els[i].cells) : \E c \in 1..(Len(els[i].cells[r]) - 1) :
            els[i].cells[r][c] = S(label)

Labelled(els, label) ==
    LET i == CHOOSE i \in 1..Len(els) : IsTable(els, i) /\
                \E r \in 1..Len(els[i].cells) : \E c \in 1..(Len(els[i].cells[r]) - 1) :
                    els[i].cells[r][c] = S(label)
        r == CHOOSE r \in 1..Len(els[i].cells) :
                \E c \in 1..(Len(els[i].cells[r]) - 1) : els[i].cells[r][c] = S(label)
        c == CHOOSE c \in 1..(Len(els[i].cells[r]) - 1) : els[i].cells[r][c] = S(label)
    IN  els[i].cells[r][c + 1]

\* The table whose header row is the given one
HasTable(els, header) ==
    \E i \in 1..Len(els) : IsTable(els, i) /\ els[i].cells[1] = header
TableOf(els, header) ==
    els[CHOOSE i \in 1..Len(els) : IsTable(els, i) /\ els[i].cells[1] = header].cells

InvHeader == <<S("Description"), S("Start Date"), S("Amount"), S("ROI")>>
PayHeader == <<S("Month"), S("Amount"), S("Status")>>

HasParagraph(els, text) ==
    \E i \in 1..Len(els) : els[i].kind = "Paragraph" /\ els[i].text = S(text)

\* The index of a heading and the element after it
HeadingAt(els, text) ==
    CHOOSE i \in 1..Len(els) : els[i] = Paragraph(text, "CustomHeading")
HasHeading(els, text) ==
    \E i \in 1..Len(els) : els[i] = Paragraph(text, "CustomHeading")

\* ------------------------------------------------------------------ C1
\* Every field of the object is absent or holds its well-formed sample value
\* (rows of the two lists likewise, key by key).
RowPlain(row, keys, sample) == \A k \in keys : row[k] \in {Absent, sample[k]}

ListPlain(v, keys, sample) ==
    \/ v = Absent
    \/ v.t = "list" /\ \A i \in 1..Len(v.rows) : RowPlain(v.rows[i], keys, sample)

PlainInput ==
    /\ IsObject
    /\ IF cmd = "agreement"
       THEN \A k \in AgrKeys : input.f[k] \in {Absent, AgrSample[k]}
       ELSE /\ \A k \in StmtKeys \ {"investments", "payoutList"} :
                    input.f[k] \in {Absent, StmtSample[k]}
            /\ ListPlain(input.f.investments, InvKeys, InvSample)
            /\ ListPlain(input.f.payoutList, PayKeys, PaySample)

\* The fallback value of each absent key, where the output shows it
AgrFallbacks(f, els) ==
    /\ f.title = Absent => els[3] = Paragraph("Investment Agreement", "CustomHeading")
    /\ f.investorName = Absent =>
            /\ Labelled(els, "Investor Name:") = S("N/A")
            /\ Labelled(els, "Signed by:") = S("N/A")
            /\ \E i \in 1..Len(els) : els[i].kind = "Paragraph"
                    /\ StartsWith(els[i].text.s, "I, the undersigned, acknowledge")
    /\ f.investorEmail = Absent => Labelled(els, "Email:") = S("N/A")
    /\ f.investmentAmount = Absent => Labelled(els, "Investment Amount:") = S("$0.00")
    /\ f.content = Absent =>
            els[HeadingAt(els, "Terms and Conditions") + 1] = Spacer
    /\ f.signatureData = Absent => HasParagraph(els, "[No signature provided]")
    /\ f.signedDate = Absent => Labelled(els, "Date Signed:") = S("June 03, 2024 at 02:07 PM")

InvRowFallbacks(row, cells) ==
    /\ row.description = Absent => cells[1] = S("Investment")
    /\ row.startDate = Absent => cells[2] = S("-")
    /\ row.amount = Absent => cells[3] = S("$0.00")
    /\ row.roi = Absent => cells[4] = S("0.0%")

PayRowFallbacks(row, cells) ==
    /\ row.month = Absent => cells[1] = S("-")
    /\ row.amount = Absent => cells[2] = S("$0.00")
    /\ row.status = Absent => cells[3] = S("-")

StmtFallbacks(f, els) ==
    /\ f.investorName = Absent => Labelled(els, "Investor:") = S("Investor")
    /\ f.investorEmail = Absent => Labelled(els, "Email:") = S("")
    /\ f.month = Absent => Labelled(els, "Statement Period:") = S("June 2024")
    /\ f.openingBalance = Absent => Labelled(els, "Opening Balance") = S("$0.00")
    /\ f.returns = Absent => Labelled(els, "Investment Returns") = S("$0.00")
    /\ f.payouts = Absent => Labelled(els, "Payouts Received") = S("($0.00)")
    /\ f.closingBalance = Absent => Labelled(els, "Closing Balance") = S("$0.00")
    /\ IF Truthy(f.investments)
       THEN /\ HasTable(els, InvHeader)
            /\ Len(TableOf(els, InvHeader)) = Len(f.investments.rows) + 1
            /\ \A i \in 1..Len(f.investments.rows) :
                    InvRowFallbacks(f.investments.rows[i], TableOf(els, InvHeader)[i + 1])
       ELSE /\ HasParagraph(els, "No active investments for this period.")
            /\ ~HasTable(els, InvHeader)
    /\ IF Truthy(f.payoutList)
       THEN /\ HasTable(els, PayHeader)
            /\ Len(TableOf(els, PayHeader)) = Len(f.payoutList.rows) + 1
            /\ \A i \in 1..Len(f.payoutList.rows) :
                    PayRowFallbacks(f.payoutList.rows[i], TableOf(els, PayHeader)[i + 1])
       ELSE /\ HasParagraph(els, "No payouts recorded for this period.")
            /\ ~HasTable(els, PayHeader)

\* C1: when the input is a JSON object in which any subset of the optional
\* fields (and of the keys of each row) is absent and the rest are well
\* formed, no section of either renderer raises, so the run reaches doc.build,
\* and at doc.build every absent field shows as its fallback value.
C1_AbsentFieldsFallBack ==
    PlainInput =>
        /\ pc = "except" => exc.at = "doc.build"
        /\ (pc = "exited" /\ inputRead) => (returned \/ exc.at = "doc.build")
        /\ pc \in {"build", "print"} =>
                IF cmd = "agreement" THEN AgrFallbacks(input.f, elements)
                ELSE StmtFallbacks(input.f, elements)

\* C1 witness: an agreement built from the empty object ran to exit code 0
C1_Witness ==
    /\ cmd = "agreement" /\ IsObject
    /\ \A k \in AgrKeys : input.f[k] = Absent
    /\ pc = "exited" /\ exitCode = 0 /\ returned

\* ------------------------------------------------------------------ C2
MoneyPlaces == {"openingBalance", "returns", "payouts", "closingBalance", "roi",
                "investments.amount", "investments.roi", "payoutList.amount"}

\* C2 (as claimed): in generate_statement a monetary or percentage field whose
\* value is missing or not numeric counts as 0 and never makes the render
\* fail: no float() of such a field raises.
C2_NonNumericCountsAsZero ==
    (cmd = "statement" /\ IsObject) => ~(exc.type # "none" /\ exc.at \in MoneyPlaces)

\* ------------------------------------------------------------------ C3
IsSignatureElement(e) ==
    \/ e.kind = "Image"
    \/ e.kind = "Paragraph" /\ e.text.s \in {"[Signature could not be rendered]",
                                           "[No signature provided]"}

\* The signature section ran to its end: an element follows its heading
SignatureDone ==
    /\ HasHeading(elements, "Digital Signature")
    /\ HeadingAt(elements, "Digital Signature") < Len(elements)

SignatureShown == elements[HeadingAt(elements, "Digital Signature") + 1]

\* The element the claim's three rules give each signatureData of the inputs:
\* the one loadable image among them is the whole PNG
SignatureClaimed(v) ==
    IF v = S("data:image/png;base64," \o PngB64) THEN Image(PngBytes)
    ELSE IF v.t = "str" /\ StartsWith(v.s, "data:image/")
    THEN Paragraph("[Signature could not be rendered]", "CustomBody")
    ELSE Paragraph("[No signature provided]", "CustomBody")

\* C3 (as claimed): the signature section always puts exactly one element
\* after its heading and never aborts the render: the image when signatureData
\* starts with "data:image/" and the text after the first comma decodes to a
\* loadable image, "[Signature could not be rendered]" when it starts with
\* "data:image/" and decoding fails for any reason (no comma, malformed
\* base64, corrupt image), "[No signature provided]" when it is absent, empty
\* or does not start with "data:image/".  Neither the section nor the drawing
\* of its image raises.
C3_OneSignatureElement ==
    (cmd = "agreement" /\ IsObject) =>
        /\ exc.at # "signatureData"
        /\ ~(exc.at = "doc.build" /\ exc.type = "OSError")
        /\ (pc = "signed" \/ Rendered) => SignatureDone
        /\ SignatureDone =>
            /\ Cardinality({i \in 1..Len(elements) : IsSignatureElement(elements[i])}) = 1
            /\ SignatureShown = SignatureClaimed(input.f.signatureData)

\* ------------------------------------------------------------------ C4
\* The "Date Signed" text the claim's rule gives each string of the inputs
DateSignedExpected(x) ==
    CASE x = "2024-03-15T10:30:00Z" -> "March 15, 2024 at 10:30 AM"
      [] x = "2024-03-15" -> "March 15, 2024 at 12:00 AM"
      [] x = "2024-03-15T00:05:00" -> "March 15, 2024 at 12:05 AM"
      [] x = "2024-03-15T12:00" -> "March 15, 2024 at 12:00 PM"
      [] x = "2024-03-15T13:45:59+05:30" -> "March 15, 2024 at 01:45 PM"
      [] x = "2024-12-01T23:59:00Z" -> "December 01, 2024 at 11:59 PM"
      [] x = "2024-03-15 10:30:00" -> "March 15, 2024 at 10:30 AM"
      [] x = "2024-03-15T10:30:00.123456Z" -> "March 15, 2024 at 10:30 AM"
      [] x = "2024-02-29" -> "February 29, 2024 at 12:00 AM"
      [] x = "2024-03-15T09:07:00-08:00" -> "March 15, 2024 at 09:07 AM"
      [] x = "2024-03-15T10:30:00+05:30:15" -> "March 15, 2024 at 10:30 AM"
      [] x = "2024-03-15T10:30:00.1Z" -> "March 15, 2024 at 10:30 AM"
      [] x = "20240315" -> "March 15, 2024 at 12:00 AM"
      [] x = "2024-W11-5" -> "March 15, 2024 at 12:00 AM"
      [] x = "2024-03-15T10:30:00+05:60" -> "March 15, 2024 at 10:30 AM"
      [] x = "2024-03-15T1030" -> "March 15, 2024 at 10:30 AM"
      [] x = "2024-03-15T22:15:00+0530" -> "March 15, 2024 at 10:15 PM"
      [] OTHER -> x
    /\ HasLabel(elements, "Date Signed:")
    /\ Labelled(elements, "Date Signed:") = S("March 15, 2024 at 01:45 PM")
    /\ pc = "exited"

\* ------------------------------------------------------------------ C5
AgrUsage == "Usage: generate_signed_agreement.py '<input_json_path>' '<output_path>'"

\* C5 (as claimed): a run of generate_signed_agreement ends in the outcome of
\* the first condition that applies: wrong argument count, the usage message
\* and exit 1 with the input never read; input path missing, "Input file not
\* found" and exit 1; input not JSON, the parse error and exit 1; any other
\* failure, a render failure included, "Error: ..." and exit 1; otherwise the
\* confirmation line after the renderer returned, and exit 0.
C5_AgreementOutcome ==
    (cmd = "agreement" /\ pc = "exited") =>
        /\ Len(stdout) = 1
        /\ IF argc # 2
           THEN stdout[1] = AgrUsage /\ exitCode = 1 /\ ~inputRead
           ELSE IF input.status = "missing"
           THEN StartsWith(stdout[1], "Input file not found") /\ exitCode = 1
           ELSE IF input.status = "malformed"
           THEN StartsWith(stdout[1], "JSON parse error") /\ exitCode = 1
           ELSE IF ~returned
           THEN StartsWith(stdout[1], "Error: ") /\ exitCode = 1
           ELSE stdout[1] = "Signed agreement generated: " \o OutputPath /\ exitCode = 0

\* ------------------------------------------------------------------ C6
StmtUsage == "Usage: python generate_statement.py <input_json_path> <output_path>"

\* C6 (as claimed): generate_statement called with any number of arguments
\* other than two, too few or too many, prints the usage message and exits
\* with code 1 without reading the input or writing the output.
C6_StatementArgumentCount ==
    (cmd = "statement" /\ argc # 2 /\ pc # "start") =>
        /\ pc = "exited" /\ exitCode = 1
        /\ stderr = <<StmtUsage>>
        /\ ~inputRead
        /\ outFile # "new"

\* ------------------------------------------------------------------ C7
StmtSuccessLine == "{\"success\": true, \"path\": \"" \o OutputPath \o "\"}"

IsFailureLine(line) ==
    /\ StartsWith(line, "{\"success\": false, \"error\": \"")
    /\ SubSeq(line, Len(line) - 1, Len(line)) = "\"}"

\* C7: a run of generate_statement that passed the argument check prints
\* nothing before it ends and ends with exactly one JSON object on standard
\* output: the success object and exit code 0 if and only if the renderer
\* returned, the failure object and exit code 1 otherwise.
C7_OneJsonObject ==
    (cmd = "statement" /\ argc >= 2) =>
        /\ pc # "exited" => stdout = <<>> /\ exitCode = -1
        /\ pc = "exited" =>
            /\ Len(stdout) = 1
            /\ IF returned
               THEN stdout[1] = StmtSuccessLine /\ exitCode = 0
               ELSE IsFailureLine(stdout[1]) /\ exitCode = 1

\* C7 witness: a float() that raised in the summary ended the run with the
\* failure object and exit code 1
C7_Witness ==
    /\ cmd = "statement" /\ pc = "exited" /\ exitCode = 1
    /\ exc.at = "openingBalance"
    /\ stdout = <<"{\"success\": false, \"error\": \"could not convert string to float: 'abc'\"}">>

\* ------------------------------------------------------------------ C8
\* The payout table is made: every row of payoutList has its table row
PayoutTableMade ==
    /\ cmd = "statement" /\ IsObject
    /\ input.f.payoutList.t = "list"
    /\ HasTable(elements, PayHeader)

StatusShown(i) == TableOf(elements, PayHeader)[i + 1][3]

StatusGiven(i) ==
    IF input.f.payoutList.rows[i].status = Absent THEN "-"
    ELSE input.f.payoutList.rows[i].status.s

\* The status words of the inputs with the first letter in upper case and the
\* rest as it is
StatusFirstUpper(x) ==
    CASE x = "pending" -> "Pending"
      [] x = "pAiD" -> "PAiD"
      [] x = "on hold" -> "On hold"
      [] x = "éLAN" -> "ÉLAN"
      [] x = "çA VA" -> "ÇA VA"
      [] x = "µM" -> "ΜM"
      [] x = "ßA" -> "SSA"
      [] OTHER -> x

\* C8 (as claimed): the Status cell is the status with its first letter in
\* upper case and every other character unchanged ("PAID" stays "PAID"); "-"
\* for a missing status.
C8_StatusRestUnchanged ==
    PayoutTableMade =>
        \A i \in 1..Len(input.f.payoutList.rows) :
            StatusShown(i) = S(StatusFirstUpper(StatusGiven(i)))

\* The status words of the inputs as Python's str.capitalize gives them
StatusExpected(x) ==
    CASE x = "pending" -> "Pending"
      [] x = "PAID" -> "Paid"
      [] x = "pAiD" -> "Paid"
      [] x = "on hold" -> "On hold"
      [] x = "éLAN" -> "Élan"
      [] x = "çA VA" -> "Ça va"
      [] x = "µM" -> "Μm"
      [] x = "ßA" -> "Ssa"
      [] OTHER -> x

\* C8 (amended): the Status cell is the status string with its first character
\* in title case and every other character in lower case ("pending" gives
\* "Pending", "PAID" gives "Paid", and the sharp s of "ßA" gives "Ssa"); "-"
\* for a missing status.
C8_StatusCapitalized ==
    PayoutTableMade =>
        \A i \in 1..Len(input.f.payoutList.rows) :
            StatusShown(i) = S(StatusExpected(StatusGiven(i)))

\* C8 witness: rows with the statuses "PAID" and "ßA" are shown as "Paid" and
\* "Ssa" in a run that ended with exit code 0
C8_Witness ==
    /\ PayoutTableMade
    /\ \E i \in 1..Len(input.f.payoutList.rows) :
            StatusGiven(i) = "PAID" /\ StatusShown(i) = S("Paid")
    /\ \E i \in 1..Len(input.f.payoutList.rows) :
            StatusGiven(i) = "ßA" /\ StatusShown(i) = S("Ssa")
    /\ exitCode = 0

\* ------------------------------------------------------------------ C9
\* C9: the output file is written by doc.build alone: it is new only once the
\* renderer has returned; a run that ends with a non-zero exit code for a
\* failure before doc.build (argument count, missing input, malformed JSON,
\* an exception in a section) leaves the output path as it was; exit code 0
\* means the file was written in this run.
C9_FileWrittenAtBuild ==
    /\ outFile = "new" => returned
    /\ (pc = "exited" /\ exitCode # 0 /\ exc.at # "doc.build") => outFile # "new"
    /\ exitCode = 0 => outFile = "new"

\* C9 witness: a run over an existing output file failed in a section and left
\* the old file in place
C9_Witness ==
    /\ pc = "exited" /\ exitCode = 1
    /\ exc.type = "AttributeError" /\ exc.at \in {"title", "investorName"}
    /\ outFile = "old"

\* ----------------------------------------------------------------- C10
\* C10 (as claimed): "Input file not found" is reported only when the input
\* path does not exist; a failure after the input was read and parsed, such as
\* an output path in a directory that does not exist, is reported as the
\* generic error.
C10_NotFoundMeansInputMissing ==
    \A i \in 1..Len(stdout) :
        Contains(stdout[i], "Input file not found") => input.status = "missing"

====
